---------------------------- MODULE Spec2Model ----------------------------
(***************************************************************************)
(* Model of the seniwise front-end mock-up: the list endpoint              *)
(* GET /residents of the demo API router (filter, sort, paginate) and the  *)
(* client-side TableView renderer that drives it; the detail endpoint      *)
(* GET /residents/:uuid with the schema-driven builder of the localized    *)
(* resident payload; the label resolver of the tools module; and the       *)
(* front-end server with its session store, its cookie parsing and its     *)
(* authentication middleware.                                              *)
(*                                                                         *)
(* Strings the code inspects character by character (names, the search     *)
(* text, the page parameter, dates) are sequences of one-character         *)
(* strings; strings the code only compares for equality (sort keys, sort   *)
(* orders) are TLA+ strings.                                               *)
(***************************************************************************)
EXTENDS Integers, Sequences, FiniteSets, TLC

VARIABLES
    demoResidents,   \* demo_api: the in-memory record collection
    request,         \* demo_api: req.query of the list request handled, or
                     \* req.params of the detail request handled
    response,        \* demo_api: status and body of the last response sent
    now,             \* the clock: what Date.now() returns, as whole seconds s
                     \* since the epoch and ms (0..999) beyond them
    state,           \* TableView: this.state {page, query, sortBy, sortOrder}
    columns,         \* TableView: this.columns
    items,           \* TableView: this.items
    pagination,      \* TableView: this.pagination
    loading,         \* TableView: this.loading
    searchTimeout,   \* TableView: this.searchTimeout (timer id or null)
    timers,          \* browser: the timers that are set and not yet fired/cleared
    nextTimerId,     \* browser: the id window.setTimeout returns next
    elapsed,         \* browser: ms since the last search-input event
    inputValue,      \* DOM: this.searchInput.value
    dom,             \* DOM: what render() last wrote (header, body, buttons)
    fetches,         \* network: the fetches issued and not yet settled
    loadCount,       \* the number of calls of TableView.load so far
    event,           \* the handler that ran last (and its argument)
    call,            \* tools: the function called and its arguments
    returned,        \* tools: what the call returned
    sessionStore,    \* index: the session store, session id -> session
    sessionsIssued   \* index: the number of session ids drawn so far

serverVars == <<demoResidents, request, response, now, call, returned, sessionStore,
               sessionsIssued>>
clientVars == <<state, columns, items, pagination, loading, searchTimeout,
                timers, nextTimerId, elapsed, inputValue, dom, fetches, loadCount,
                event>>
vars == <<demoResidents, request, response, now, state, columns, items, pagination,
          loading, searchTimeout, timers, nextTimerId, elapsed, inputValue, dom,
          fetches, loadCount, event, call, returned, sessionStore, sessionsIssued>>

---------------------------------------------------------------------------
(* Bounds of the model *)

\* longest value of the p query parameter
MaxPLen == 2
\* largest record collection of which every arrangement is explored
MaxResidents == 2
\* the large record collections hold up to this many full pages
MaxFullPages == 2
\* calls of TableView.load in one run, the constructor's included
MaxLoads == 3
\* input events on the search box in one run
MaxKeystrokes == 2
\* the time one step of the clock advances, in ms
TickMs == 125
\* longest label template of which every spelling is explored
MaxTemplateLen == 4

---------------------------------------------------------------------------
(* JavaScript strings and numbers *)

\* Primary collation order of the characters used (whitespace, punctuation,
\* digits, letters), upper-case letters folded onto lower-case ones.
Collation == <<" ", "-", ".", "0", "1", "2", "3", "4", "5", "6", "7", "8", "9",
               "a", "b", "c", "d", "e", "f", "g", "h", "i", "j", "k", "l", "m",
               "n", "o", "p", "q", "r", "s", "t", "u", "v", "w", "x", "y", "z">>

\* UTF-16 code-unit order of the same characters (upper case before lower).
CodeUnits == <<" ", "-", ".", "0", "1", "2", "3", "4", "5", "6", "7", "8", "9", ":",
               "A", "B", "C", "D", "E", "F", "G", "H", "I", "J", "K", "L", "M",
               "N", "O", "P", "Q", "R", "S", "T", "U", "V", "W", "X", "Y", "Z",
               "a", "b", "c", "d", "e", "f", "g", "h", "i", "j", "k", "l", "m",
               "n", "o", "p", "q", "r", "s", "t", "u", "v", "w", "x", "y", "z">>

UpperCase == <<"A", "B", "C", "D", "E", "F", "G", "H", "I", "J", "K", "L", "M",
               "N", "O", "P", "Q", "R", "S", "T", "U", "V", "W", "X", "Y", "Z">>
LowerCase == <<"a", "b", "c", "d", "e", "f", "g", "h", "i", "j", "k", "l", "m",
               "n", "o", "p", "q", "r", "s", "t", "u", "v", "w", "x", "y", "z">>

IndexIn(seq, c) == CHOOSE i \in 1..Len(seq) : seq[i] = c

\* String.prototype.toLowerCase, one character
ToLowerChar(c) ==
    IF \E i \in 1..Len(UpperCase) : UpperCase[i] = c
    THEN LowerCase[IndexIn(UpperCase, c)]
    ELSE c

\* String.prototype.toLowerCase
ToLowerCase(s) == [i \in 1..Len(s) |-> ToLowerChar(s[i])]

IsWhiteSpace(c) == c = " "

\* String.prototype.trimStart / trimEnd / trim
RECURSIVE TrimStart(_)
TrimStart(s) ==
    IF s # <<>> /\ IsWhiteSpace(Head(s)) THEN TrimStart(Tail(s)) ELSE s

RECURSIVE TrimEnd(_)
TrimEnd(s) ==
    IF s # <<>> /\ IsWhiteSpace(s[Len(s)])
    THEN TrimEnd(SubSeq(s, 1, Len(s) - 1))
    ELSE s

Trim(s) == TrimEnd(TrimStart(s))

\* String.prototype.includes
Includes(s, t) ==
    \E i \in 1..(Len(s) - Len(t) + 1) : SubSeq(s, i, i + Len(t) - 1) = t

\* a.localeCompare(b, "en", {sensitivity: "base"}): -1, 0 or 1 by the primary
\* collation weights, a proper prefix before the longer string.
RECURSIVE LocaleCompare(_, _)
LocaleCompare(a, b) ==
    IF a = <<>> THEN (IF b = <<>> THEN 0 ELSE -1)
    ELSE IF b = <<>> THEN 1
    ELSE LET wa == IndexIn(Collation, ToLowerChar(Head(a)))
             wb == IndexIn(Collation, ToLowerChar(Head(b)))
         IN  IF wa < wb THEN -1
             ELSE IF wa > wb THEN 1
             ELSE LocaleCompare(Tail(a), Tail(b))

\* a > b on strings: by UTF-16 code units
RECURSIVE StringGreater(_, _)
StringGreater(a, b) ==
    IF a = <<>> THEN FALSE
    ELSE IF b = <<>> THEN TRUE
    ELSE LET ca == IndexIn(CodeUnits, Head(a))
             cb == IndexIn(CodeUnits, Head(b))
         IN  IF ca > cb THEN TRUE
             ELSE IF ca < cb THEN FALSE
             ELSE StringGreater(Tail(a), Tail(b))

\* A JavaScript number: NaN or an integer.
NaN == [nan |-> TRUE, n |-> 0]
Num(n) == [nan |-> FALSE, n |-> n]

Digits == {"0", "1", "2", "3", "4", "5", "6", "7", "8", "9"}
HexDigits == Digits \cup {"a", "b", "c", "d", "e", "f", "A", "B", "C", "D", "E", "F"}
DigitValue(c) == IndexIn(<<"0", "1", "2", "3", "4", "5", "6", "7", "8", "9">>, c) - 1

AllIn(s, S) == \A i \in 1..Len(s) : s[i] \in S

\* StrUnsignedDecimalLiteral without exponent: digits, digits "." digits?,
\* or "." digits
IsUnsignedDecimal(s) ==
    \/ s # <<>> /\ AllIn(s, Digits)
    \/ \E k \in 1..Len(s) :
         /\ s[k] = "."
         /\ AllIn(SubSeq(s, 1, k - 1), Digits)
         /\ AllIn(SubSeq(s, k + 1, Len(s)), Digits)
         /\ Len(s) > 1

\* Number.isFinite(Number(s)) for a string s: the empty or blank string is 0,
\* a signed decimal literal or an unsigned hex literal is finite, anything
\* else is NaN (the characters modelled cannot spell Infinity or an exponent).
NumberIsFinite(s) ==
    LET t == Trim(s)
    IN  \/ t = <<>>
        \/ IsUnsignedDecimal(t)
        \/ Len(t) > 1 /\ t[1] \in {"-", "+"} /\ IsUnsignedDecimal(Tail(t))
        \/ /\ Len(t) > 2
           /\ t[1] = "0"
           /\ t[2] \in {"x", "X"}
           /\ AllIn(SubSeq(t, 3, Len(t)), HexDigits)

\* the longest prefix of decimal digits
RECURSIVE DigitPrefix(_)
DigitPrefix(s) ==
    IF s # <<>> /\ Head(s) \in Digits
    THEN <<Head(s)>> \o DigitPrefix(Tail(s))
    ELSE <<>>

RECURSIVE DecimalValue(_)
DecimalValue(ds) ==
    IF ds = <<>> THEN 0
    ELSE 10 * DecimalValue(SubSeq(ds, 1, Len(ds) - 1)) + DigitValue(ds[Len(ds)])

\* Number.parseInt(s, 10): leading white space and a sign are skipped, the
\* longest digit prefix is the value, no digit gives NaN.
ParseInt(s) ==
    LET t      == TrimStart(s)
        signed == t # <<>> /\ Head(t) \in {"-", "+"}
        body   == IF signed THEN Tail(t) ELSE t
        ds     == DigitPrefix(body)
    IN  IF ds = <<>> THEN NaN
        ELSE IF signed /\ Head(t) = "-" THEN Num(0 - DecimalValue(ds))
        ELSE Num(DecimalValue(ds))

\* Math.max(a, b) and Math.min(a, b): NaN when either argument is NaN
MathMax(a, b) == IF a.nan \/ b.nan THEN NaN ELSE IF a.n >= b.n THEN a ELSE b
MathMin(a, b) == IF a.nan \/ b.nan THEN NaN ELSE IF a.n <= b.n THEN a ELSE b

\* Math.ceil(a / b) for integers a >= 0, b > 0
CeilDiv(a, b) == (a + b - 1) \div b

\* slice taking the element at the end index too
SliceInclusive(seq, start, end) ==
    LET from == IF start.nan THEN 0 ELSE start.n
        to   == IF end.nan THEN 0 ELSE end.n + 1
        lo   == IF from > Len(seq) THEN Len(seq) ELSE from
        hi   == IF to > Len(seq) THEN Len(seq) ELSE to
    IN  SubSeq(seq, lo + 1, hi)

\* Array.prototype.slice(start, end) with 0-based, possibly NaN bounds:
\* ToIntegerOrInfinity(NaN) is 0
Slice(seq, start, end) ==
    LET from == IF start.nan THEN 0 ELSE start.n
        to   == IF end.nan THEN 0 ELSE end.n
        lo   == IF from > Len(seq) THEN Len(seq) ELSE from
        hi   == IF to > Len(seq) THEN Len(seq) ELSE to
    IN  SubSeq(seq, lo + 1, hi)


\* Number.prototype.toString of a non-negative integer
RECURSIVE NumberToString(_)
NumberToString(n) ==
    LET digit == <<"0", "1", "2", "3", "4", "5", "6", "7", "8", "9">>[(n % 10) + 1]
    IN  IF n < 10 THEN <<digit>> ELSE Append(NumberToString(n \div 10), digit)

---------------------------------------------------------------------------
(* JavaScript values of mixed type: the raw records and the arguments of   *)
(* labels() hold strings, numbers, booleans, null and arrays; undefined is *)
(* also what reading a missing key gives                                   *)

JsStr(s) == [t |-> "string", v |-> s]
JsNum(n) == [t |-> "number", v |-> n]
JsBool(b) == [t |-> "boolean", v |-> b]
JsArr(a) == [t |-> "array", v |-> a]
JsNull == [t |-> "null"]
JsUndefined == [t |-> "undefined"]

\* obj[key]
Get(obj, key) == IF key \in DOMAIN obj THEN obj[key] ELSE JsUndefined

\* value == null
IsNullish(value) == value.t \in {"null", "undefined"}

\* String(value) of a string, a non-negative integer, a boolean, null or
\* undefined
JsString(value) ==
    CASE value.t = "string"    -> value.v
      [] value.t = "number"    -> NumberToString(value.v)
      [] value.t = "boolean"   -> IF value.v THEN <<"t", "r", "u", "e">>
                                  ELSE <<"f", "a", "l", "s", "e">>
      [] value.t = "null"      -> <<"n", "u", "l", "l">>
      [] value.t = "undefined" -> <<"u", "n", "d", "e", "f", "i", "n", "e", "d">>

---------------------------------------------------------------------------
(* demo_users: the staff roster *)

DEMO_USERS == <<
    [username |-> <<"r", "e", "h", "a">>,
     name     |-> <<"R", "e", "h", "a", " ", "Y", "u", "r", "d", "a", "k", "u", "l">>],
    [username |-> <<"a", "t", "e", "s", "h">>,
     name     |-> <<"A", "t", "e", "s", " ", "Y", "u", "r", "d", "a", "k", "u", "l">>],
    [username |-> <<"k", "o", "r", "h", "a", "n">>,
     name     |-> <<"K", "o", "r", "h", "a", "n", " ", "O", "z", "m", "e", "n">>],
    [username |-> <<"h", "u", "s", "e", "y", "i", "n">>,
     name     |-> <<"H", "u", "s", "e", "y", "i", "n", " ", "A", "v", "c", "i">>],
    [username |-> <<"m", "e", "h", "m", "e", "t">>,
     name     |-> <<"M", "e", "h", "m", "e", "t", " ", "B", "i", "l", "g", "i", "n",
                    "s", "o", "y">>] >>

\* USERS_BY_USERNAME.has(u)
UsersHas(u) == \E i \in 1..Len(DEMO_USERS) : DEMO_USERS[i].username = u

\* USERS_BY_USERNAME.get(u).name
UsersGetName(u) ==
    DEMO_USERS[CHOOSE i \in 1..Len(DEMO_USERS) : DEMO_USERS[i].username = u].name

---------------------------------------------------------------------------
(* demo_api: constants of the list endpoint *)

RESIDENTS_PAGE_SIZE == 20

RESIDENTS_SORT_FIELDS == <<"name", "responsible_staff", "birth_date", "gender",
                           "room", "last_visit_date", "last_visit_staff">>

RESIDENTS_LIST_COLUMNS == <<
    [key |-> "name", label |-> "Name", sortable |-> TRUE, sort_key |-> "name"],
    [key |-> "responsible_staff", label |-> "Responsible Staff", sortable |-> TRUE,
     sort_key |-> "responsible_staff"],
    [key |-> "birth_date", label |-> "Birth Date", sortable |-> TRUE,
     sort_key |-> "birth_date"],
    [key |-> "room", label |-> "Room", sortable |-> TRUE, sort_key |-> "room"],
    [key |-> "gender_short", label |-> "Gender", sortable |-> TRUE,
     sort_key |-> "gender"],
    [key |-> "last_visit_display", label |-> "Last Visit", sortable |-> TRUE,
     sort_key |-> "last_visit_date"] >>

\* Array.prototype.includes on a list of strings
ArrayIncludes(arr, v) == \E i \in 1..Len(arr) : arr[i] = v

\* typeof obj[key] === "string" ? obj[key] : ""
StringField(obj, key) ==
    IF key \in DOMAIN obj /\ obj[key].t = "string" THEN obj[key].v ELSE <<>>

\* a value that is an object: the model gives an object the keys it holds, and
\* any other value its type under the key t
IsObject(value) == "t" \notin DOMAIN value

---------------------------------------------------------------------------
(* Date: parsing and toISOString, as the list endpoint and the builder use *)

\* The date strings of the records are either of the form
\* YYYY-MM-DDTHH:MM:SSZ or hold no digit at all.  new Date(text).getTime() of
\* such a text: the instant of the first form when its fields are in range,
\* NaN otherwise.  The instant is a whole number of seconds, and it is kept in
\* seconds (getTime() is 1000 times it).
DaysInMonth(y, m) ==
    IF m = 2 THEN (IF y % 4 = 0 /\ (y % 100 # 0 \/ y % 400 = 0) THEN 29 ELSE 28)
    ELSE IF m \in {4, 6, 9, 11} THEN 30 ELSE 31

\* days from 1970-01-01 to the civil date y-m-d
DaysFromCivil(y, m, d) ==
    LET yy  == IF m <= 2 THEN y - 1 ELSE y
        era == yy \div 400
        yoe == yy - era * 400
        mp  == IF m > 2 THEN m - 3 ELSE m + 9
        doy == (153 * mp + 2) \div 5 + d - 1
        doe == yoe * 365 + yoe \div 4 - yoe \div 100 + doy
    IN  era * 146097 + doe - 719468

DateFields(text) ==
    [y  |-> DecimalValue(SubSeq(text, 1, 4)),   m  |-> DecimalValue(SubSeq(text, 6, 7)),
     d  |-> DecimalValue(SubSeq(text, 9, 10)),  h  |-> DecimalValue(SubSeq(text, 12, 13)),
     mi |-> DecimalValue(SubSeq(text, 15, 16)), s  |-> DecimalValue(SubSeq(text, 18, 19))]

IsDateTime(text) ==
    /\ Len(text) = 20
    /\ \A i \in {1, 2, 3, 4, 6, 7, 9, 10, 12, 13, 15, 16, 18, 19} : text[i] \in Digits
    /\ text[5] = "-" /\ text[8] = "-" /\ text[11] = "T"
    /\ text[14] = ":" /\ text[17] = ":" /\ text[20] = "Z"
    /\ LET f == DateFields(text)
       IN  /\ f.m \in 1..12 /\ f.d \in 1..DaysInMonth(f.y, f.m)
           /\ f.h \in 0..23 /\ f.mi \in 0..59 /\ f.s \in 0..59

DateGetTime(text) ==
    IF ~IsDateTime(text) THEN NaN
    ELSE LET f == DateFields(text)
         IN  Num(86400 * DaysFromCivil(f.y, f.m, f.d) + 3600 * f.h + 60 * f.mi + f.s)

Pad(n, width) ==
    LET digits == ToString(n)
    IN  IF Len(digits) >= width THEN digits
        ELSE SubSeq("0000", 1, width - Len(digits)) \o digits

\* parsed.toISOString().replace("T", " ").slice(0, 16) of a parsed date text
DisplayDate(text) ==
    LET f == DateFields(text)
    IN  Pad(f.y, 4) \o "-" \o Pad(f.m, 2) \o "-" \o Pad(f.d, 2) \o " "
        \o Pad(f.h, 2) \o ":" \o Pad(f.mi, 2)

---------------------------------------------------------------------------
(* demo_api: GET /residents *)

\* the visit with the greatest date, scanning in order: an entry that is null
\* or has no string as date is skipped; a later visit replaces the current one
\* only when its date is strictly greater
RECURSIVE LastVisit(_, _)
LastVisit(visits, acc) ==
    IF visits = <<>> THEN acc
    ELSE LET visit == Head(visits)
         IN  IF ~IsObject(visit) \/ Get(visit, "date").t # "string"
             THEN LastVisit(Tail(visits), acc)
             ELSE IF acc.lastVisitDate = <<>>
                     \/ StringGreater(visit.date.v, acc.lastVisitDate)
             THEN LastVisit(Tail(visits),
                            [lastVisitDate |-> visit.date.v,
                             lastVisitCaretakerUsername |-> StringField(visit, "caretaker")])
             ELSE LastVisit(Tail(visits), acc)

\* the thresholds of lastVisitRelative of the list handler; tail is "from now"
\* or "ago"
LastVisitRelativeOf(absSeconds, tail) ==
    IF absSeconds < 60 THEN "just now"
    ELSE IF absSeconds < 3600 THEN ToString(absSeconds \div 60) \o " min " \o tail
    ELSE IF absSeconds < 86400 THEN ToString(absSeconds \div 3600) \o " hr " \o tail
    ELSE IF absSeconds < 2592000
    THEN ToString(absSeconds \div 86400) \o " day"
         \o (IF absSeconds \div 86400 = 1 THEN "" ELSE "s") \o " " \o tail
    ELSE ToString(absSeconds \div 2592000) \o " mo " \o tail

\* Math.floor(Math.abs(parsedTime - now) / 1000) at the time at (Date.now() as
\* seconds and the milliseconds into the second): diffMs is positive exactly
\* when the date's second is after at.s, and the floor of |diffMs| / 1000
\* loses a second to at.ms only then
LastVisitAbsSeconds(parsedTime, at) ==
    IF parsedTime.n > at.s
    THEN parsedTime.n - at.s - (IF at.ms > 0 THEN 1 ELSE 0)
    ELSE at.s - parsedTime.n

\* lastVisitRelative of a parsed time: empty when the date does not parse
LastVisitRelativeAt(parsedTime, at) ==
    IF parsedTime.nan THEN ""
    ELSE LastVisitRelativeOf(LastVisitAbsSeconds(parsedTime, at),
                             IF parsedTime.n > at.s THEN "from now" ELSE "ago")

\* lastVisitRelative of the list handler for the last visit date
LastVisitRelative(lastVisitDate, at) ==
    IF lastVisitDate = <<>> THEN "" ELSE LastVisitRelativeAt(DateGetTime(lastVisitDate), at)

\* lastVisitDisplayDate of the list handler
LastVisitDisplayDate(lastVisitDate) ==
    IF lastVisitDate # <<>> /\ ~DateGetTime(lastVisitDate).nan
    THEN DisplayDate(lastVisitDate) ELSE ""

\* the display date with the relative string in parentheses after it
LastVisitDisplayOf(lastVisitDisplayDate, lastVisitRelative) ==
    IF lastVisitDisplayDate # ""
    THEN (IF lastVisitRelative # ""
          THEN lastVisitDisplayDate \o " (" \o lastVisitRelative \o ")"
          ELSE lastVisitDisplayDate)
    ELSE ""

\* the relative string that counts whole minutes only from two minutes on
LateMinutes(relative) ==
    IF relative = "1 min ago" \/ relative = "1 min from now" THEN "just now"
    ELSE relative

LastVisitDisplayLateMinutes(lastVisitDate, at) ==
    LastVisitDisplayOf(LastVisitDisplayDate(lastVisitDate),
                       LateMinutes(LastVisitRelative(lastVisitDate, at)))

\* lastVisitDisplay of the list handler
LastVisitDisplay(lastVisitDate, at) ==
    LastVisitDisplayOf(LastVisitDisplayDate(lastVisitDate),
                       LastVisitRelative(lastVisitDate, at))

\* one element of residentsWithMeta; Date.now() is the clock of the server
ResidentWithMeta(resident) ==
    LET profile   == IF "profile" \in DOMAIN resident THEN resident.profile
                     ELSE [none |-> TRUE]
        firstName == StringField(profile, "first_name")
        lastName  == StringField(profile, "last_name")
        staff     == StringField(profile, "responsible_staff")
        roomValue == StringField(profile, "room")
        last      == LastVisit(IF "visits" \in DOMAIN resident THEN resident.visits
                               ELSE <<>>,
                               [lastVisitDate |-> <<>>,
                                lastVisitCaretakerUsername |-> <<>>])
        caretaker == last.lastVisitCaretakerUsername
    IN  [uuid                   |-> IF "uuid" \in DOMAIN profile THEN profile.uuid.v ELSE 0,
         firstName              |-> firstName,
         lastName               |-> lastName,
         name                   |-> Trim(firstName \o <<" ">> \o lastName),
         responsibleStaffName   |-> IF UsersHas(staff) THEN UsersGetName(staff) ELSE staff,
         birthDate              |-> StringField(profile, "date_of_birth"),
         genderValue            |-> StringField(profile, "gender"),
         roomValue              |-> roomValue,
         roomDisplay            |-> IF roomValue # <<>> THEN roomValue ELSE <<"-">>,
         lastVisitDate          |-> last.lastVisitDate,
         lastVisitDisplay       |-> LastVisitDisplay(last.lastVisitDate, now),
         lastVisitCaretakerName |-> IF UsersHas(caretaker) THEN UsersGetName(caretaker)
                                    ELSE caretaker]

\* the filter comparing the names as stored, without lower-casing them
MatchesQueryCaseSensitive(resident, query) ==
    \/ Includes(resident.firstName, query)
    \/ Includes(resident.lastName, query)
    \/ Includes(resident.name, query)

\* the filter predicate of filteredResidents (query is non-empty)
MatchesQuery(resident, query) ==
    \/ Includes(ToLowerCase(resident.firstName), query)
    \/ Includes(ToLowerCase(resident.lastName), query)
    \/ Includes(ToLowerCase(resident.name), query)

\* the comparison on the requested sort key, before the tie-break
CompareKey(a, b, sortBy) ==
    IF sortBy = "responsible_staff"
    THEN LocaleCompare(a.responsibleStaffName, b.responsibleStaffName)
    ELSE IF sortBy = "birth_date" THEN LocaleCompare(a.birthDate, b.birthDate)
    ELSE IF sortBy = "gender" THEN LocaleCompare(a.genderValue, b.genderValue)
    ELSE IF sortBy = "room" THEN LocaleCompare(a.roomValue, b.roomValue)
    ELSE IF sortBy = "last_visit_date"
    THEN LocaleCompare(a.lastVisitDate, b.lastVisitDate)
    ELSE IF sortBy = "last_visit_staff"
    THEN LocaleCompare(a.lastVisitCaretakerName, b.lastVisitCaretakerName)
    ELSE LET firstCompare == LocaleCompare(a.firstName, b.firstName)
         IN  IF firstCompare # 0 THEN firstCompare
             ELSE LocaleCompare(a.lastName, b.lastName)

\* the comparator without the tie-break on the full name
CompareResidentsNoTieBreak(a, b, sortBy, direction) ==
    CompareKey(a, b, sortBy) * direction

\* the comparator handed to filteredResidents.sort
CompareResidents(a, b, sortBy, direction) ==
    LET compareValue == CompareKey(a, b, sortBy)
    IN  (IF compareValue = 0 THEN LocaleCompare(a.name, b.name) ELSE compareValue)
        * direction

\* an unstable insertion: an element goes before the elements equal to it
RECURSIVE InsertSortedUnstable(_, _, _, _)
InsertSortedUnstable(sorted, x, sortBy, direction) ==
    IF sorted = <<>> THEN <<x>>
    ELSE IF CompareResidents(sorted[Len(sorted)], x, sortBy, direction) < 0
    THEN Append(sorted, x)
    ELSE Append(InsertSortedUnstable(SubSeq(sorted, 1, Len(sorted) - 1), x, sortBy,
                                     direction),
                sorted[Len(sorted)])

\* Array.prototype.sort is stable: an element goes after every element that
\* does not compare greater than it.
RECURSIVE InsertSorted(_, _, _, _)
InsertSorted(sorted, x, sortBy, direction) ==
    IF sorted = <<>> THEN <<x>>
    ELSE IF CompareResidents(sorted[Len(sorted)], x, sortBy, direction) <= 0
    THEN Append(sorted, x)
    ELSE Append(InsertSorted(SubSeq(sorted, 1, Len(sorted) - 1), x, sortBy, direction),
                sorted[Len(sorted)])

RECURSIVE SortResidents(_, _, _)
SortResidents(list, sortBy, direction) ==
    IF list = <<>> THEN <<>>
    ELSE InsertSorted(SortResidents(SubSeq(list, 1, Len(list) - 1), sortBy, direction),
                      list[Len(list)], sortBy, direction)

\* the row projection of the response
ItemOf(resident) ==
    [uuid               |-> resident.uuid,
     name               |-> resident.name,
     responsible_staff  |-> resident.responsibleStaffName,
     birth_date         |-> resident.birthDate,
     room               |-> resident.roomDisplay,
     gender             |-> resident.genderValue,
     last_visit_date    |-> resident.lastVisitDate,
     last_visit_staff   |-> resident.lastVisitCaretakerName,
     last_visit_display |-> resident.lastVisitDisplay]

\* requestedPage of the handler
RequestedPage(query) ==
    IF "p" \in DOMAIN query /\ NumberIsFinite(query.p)
    THEN MathMax(Num(0), ParseInt(query.p))
    ELSE Num(0)

\* the sort key taken as requested, never checked against the whitelist
ResolveSortByUnchecked(query) ==
    IF "sort_by" \in DOMAIN query THEN query.sort_by ELSE "name"

\* sortBy of the handler
ResolveSortBy(query) ==
    LET sortByRaw == IF "sort_by" \in DOMAIN query THEN query.sort_by ELSE "name"
    IN  IF ArrayIncludes(RESIDENTS_SORT_FIELDS, sortByRaw) THEN sortByRaw ELSE "name"

\* the sort order read without regard to letter case
ResolveSortOrderAnyCase(query) ==
    IF "sort_order" \in DOMAIN query /\ query.sort_order \in {"desc", "DESC"}
    THEN "desc" ELSE "asc"

\* sortOrder of the handler
ResolveSortOrder(query) ==
    IF "sort_order" \in DOMAIN query /\ query.sort_order = "desc" THEN "desc" ELSE "asc"

\* the page taken as requested, never clamped to the last page
ClampPageUnclamped(requestedPage, totalPages) == requestedPage

\* currentPage of the handler
ClampPage(requestedPage, totalPages) ==
    LET maxPage == IF totalPages > 0 THEN totalPages - 1 ELSE 0
    IN  MathMin(requestedPage, Num(maxPage))

\* filteredResidents after the filter and the sort
FilteredSorted(residents, query) ==
    LET queryRaw  == IF "q" \in DOMAIN query THEN Trim(query.q) ELSE <<>>
        queryLow  == ToLowerCase(queryRaw)
        sortBy    == ResolveSortBy(query)
        direction == IF ResolveSortOrder(query) = "desc" THEN -1 ELSE 1
        residentsWithMeta == [i \in 1..Len(residents) |-> ResidentWithMeta(residents[i])]
        filteredResidents ==
            IF queryLow # <<>>
            THEN SelectSeq(residentsWithMeta, LAMBDA r : MatchesQuery(r, queryLow))
            ELSE residentsWithMeta
    IN  SortResidents(filteredResidents, sortBy, direction)

\* the handler of router.get("/residents"): the response it sends
ListResidents(residents, query) ==
    LET filteredResidents == FilteredSorted(residents, query)
        totalItems  == Len(filteredResidents)
        totalPages  == CeilDiv(totalItems, RESIDENTS_PAGE_SIZE)
        currentPage == ClampPage(RequestedPage(query), totalPages)
        startIndex  == IF currentPage.nan THEN NaN
                       ELSE Num(currentPage.n * RESIDENTS_PAGE_SIZE)
        endIndex    == IF startIndex.nan THEN NaN
                       ELSE Num(startIndex.n + RESIDENTS_PAGE_SIZE)
        pageItems   == Slice(filteredResidents, startIndex, endIndex)
    IN  [status |-> 200,
         body   |->
           [success |-> TRUE,
            error   |-> JsNull,
            result  |->
              [pagination |-> [current    |-> currentPage,
                               total      |-> totalPages,
                               totalItems |-> totalItems],
               search     |-> [query |-> IF "q" \in DOMAIN query THEN Trim(query.q)
                                         ELSE <<>>],
               sort       |-> [by |-> ResolveSortBy(query),
                               order |-> ResolveSortOrder(query)],
               columns    |-> RESIDENTS_LIST_COLUMNS,
               items      |-> [i \in 1..Len(pageItems) |-> ItemOf(pageItems[i])]]]]


---------------------------------------------------------------------------
(* TableView: construction *)

\* render(errorMessage): what the DOM shows afterwards; "" is no error message
Render(cols, its, pag, ld, st, errorMessage, old) ==
    IF Len(cols) = 0
    THEN [old EXCEPT !.thead = <<>>, !.tbody = [message |-> "", rows |-> <<>>]]
    ELSE LET message == IF ld THEN "Loading..."
                        ELSE IF errorMessage # "" THEN errorMessage
                        ELSE IF Len(its) = 0 THEN "No results."
                        ELSE ""
             totalPages  == pag.total
             currentPage == pag.current
         IN  [thead |-> [i \in 1..Len(cols) |->
                          [label    |-> cols[i].label,
                           sortable |-> cols[i].sortable,
                           sort_key |-> cols[i].sort_key,
                           class    |-> IF cols[i].sortable /\ st.sortBy = cols[i].sort_key
                                        THEN (IF st.sortOrder = "desc" THEN "is-desc"
                                              ELSE "is-asc")
                                        ELSE ""]],
              tbody |-> IF message # ""
                        THEN [message |-> message, rows |-> <<>>]
                        ELSE [message |-> "", rows |-> its],
              pageLabel    |-> IF totalPages # 0 THEN <<currentPage + 1, totalPages>>
                               ELSE <<0, 0>>,
              prevDisabled |-> currentPage <= 0,
              nextDisabled |-> currentPage + 1 >= totalPages]

\* the query parameters load() puts on the URL
UrlParams(st) ==
    LET withP    == [k \in {"p"} |-> NumberToString(st.page)]
        withQ    == IF st.query # <<>> THEN [k \in {"q"} |-> st.query] ELSE <<>>
        withSort == IF st.sortBy # ""
                    THEN [sort_by |-> st.sortBy, sort_order |-> st.sortOrder]
                    ELSE <<>>
    IN  withP @@ withQ @@ withSort

\* the DOM the constructor builds, before the first render
EmptyDom == [thead |-> <<>>, tbody |-> [message |-> "", rows |-> <<>>],
             pageLabel |-> <<>>,
             prevDisabled |-> FALSE, nextDisabled |-> FALSE]

ZeroPagination == [current |-> 0, total |-> 0, totalItems |-> 0]

\* new TableView(container, options): the fields after the constructor returns
\* (its call of load() has rendered and issued the first fetch)
Constructed(initialSortBy, initialSortOrder) ==
    LET st == [page |-> 0, query |-> <<>>, sortBy |-> initialSortBy,
               sortOrder |-> initialSortOrder]
    IN  /\ state = st
        /\ columns = <<>>
        /\ items = <<>>
        /\ pagination = ZeroPagination
        /\ loading = TRUE
        /\ searchTimeout = 0
        /\ timers = {}
        /\ nextTimerId = 1
        /\ elapsed = 0
        /\ inputValue = <<>>
        /\ dom = Render(<<>>, <<>>, ZeroPagination, TRUE, st, "", EmptyDom)
        /\ fetches = <<[id |-> 1, query |-> UrlParams(st)]>>
        /\ loadCount = 1
        /\ event = [type |-> "construct"]

---------------------------------------------------------------------------
(* TableView: event handlers *)

\* the delay of the search-input timer, in ms
DEBOUNCE_MS == 250

\* load() up to its await, called with this.state = st: the loading row is
\* rendered and the fetch is issued
Load(st) ==
    /\ state' = st
    /\ loading' = TRUE
    /\ dom' = Render(columns, items, pagination, TRUE, st, "", dom)
    /\ fetches' = Append(fetches, [id |-> loadCount + 1, query |-> UrlParams(st)])
    /\ loadCount' = loadCount + 1
    /\ UNCHANGED <<columns, items, pagination>>

\* the timers left after clearTimeout(id); a null or fired id clears nothing
ClearTimeout(id) == {t \in timers : id = 0 \/ t.id # id}

\* the input handler that sets a new timer without clearing the pending one
SearchInputNoClear(c) ==
    /\ nextTimerId <= MaxKeystrokes
    /\ inputValue' = Append(inputValue, c)
    /\ timers' = timers \cup {[id |-> nextTimerId, remaining |-> DEBOUNCE_MS]}
    /\ searchTimeout' = nextTimerId
    /\ nextTimerId' = nextTimerId + 1
    /\ elapsed' = 0
    /\ event' = [type |-> "input"]
    /\ UNCHANGED <<state, columns, items, pagination, loading, dom, fetches, loadCount>>

\* searchInput "input" listener: the user types c; the pending timer is
\* cleared and a new one is set
SearchInput(c) ==
    /\ nextTimerId <= MaxKeystrokes
    /\ inputValue' = Append(inputValue, c)
    /\ timers' = ClearTimeout(searchTimeout)
                 \cup {[id |-> nextTimerId, remaining |-> DEBOUNCE_MS]}
    /\ searchTimeout' = nextTimerId
    /\ nextTimerId' = nextTimerId + 1
    /\ elapsed' = 0
    /\ event' = [type |-> "input"]
    /\ UNCHANGED <<state, columns, items, pagination, loading, dom, fetches, loadCount>>

\* time passes: timers come closer to being due
Tick ==
    /\ elapsed < DEBOUNCE_MS
    /\ elapsed' = IF elapsed + TickMs >= DEBOUNCE_MS THEN DEBOUNCE_MS
                  ELSE elapsed + TickMs
    /\ timers' = {[id |-> t.id,
                   remaining |-> IF t.remaining > TickMs THEN t.remaining - TickMs ELSE 0] :
                  t \in timers}
    /\ event' = [type |-> "tick"]
    /\ UNCHANGED <<state, columns, items, pagination, loading, searchTimeout,
                   nextTimerId, inputValue, dom, fetches, loadCount>>
    /\ UNCHANGED serverVars

\* the setTimeout callback of the search input: a due timer fires
SearchTimer ==
    \E t \in timers :
        /\ t.remaining = 0
        /\ loadCount < MaxLoads
        /\ timers' = timers \ {t}
        /\ Load([state EXCEPT !.query = Trim(inputValue), !.page = 0])
        /\ event' = [type |-> "timer"]
        /\ UNCHANGED <<searchTimeout, nextTimerId, elapsed, inputValue>>
        /\ UNCHANGED serverVars

\* the click on a sort button that keeps the page
SortClickKeepPage(i) ==
    /\ i \in 1..Len(dom.thead)
    /\ dom.thead[i].sortable
    /\ loadCount < MaxLoads
    /\ LET sort_key == dom.thead[i].sort_key
       IN  /\ Load(IF state.sortBy = sort_key
                   THEN [state EXCEPT !.sortOrder = IF @ = "asc" THEN "desc" ELSE "asc"]
                   ELSE [state EXCEPT !.sortBy = sort_key, !.sortOrder = "asc"])
           /\ event' = [type |-> "sortClick", sort_key |-> sort_key]
    /\ UNCHANGED <<searchTimeout, timers, nextTimerId, elapsed, inputValue>>

\* sortButton "click" listener of header cell i, as render() last built it
SortClick(i) ==
    /\ i \in 1..Len(dom.thead)
    /\ dom.thead[i].sortable
    /\ loadCount < MaxLoads
    /\ LET sort_key == dom.thead[i].sort_key
       IN  /\ Load(IF state.sortBy = sort_key
                   THEN [state EXCEPT !.sortOrder = IF @ = "asc" THEN "desc" ELSE "asc",
                                      !.page = 0]
                   ELSE [state EXCEPT !.sortBy = sort_key, !.sortOrder = "asc",
                                      !.page = 0])
           /\ event' = [type |-> "sortClick", sort_key |-> sort_key]
    /\ UNCHANGED <<searchTimeout, timers, nextTimerId, elapsed, inputValue>>

\* a click that starts no load
NoLoad ==
    UNCHANGED <<state, columns, items, pagination, loading, dom, fetches, loadCount>>

\* prevButton "click" listener; a disabled button dispatches no click
PrevClick ==
    /\ ~dom.prevDisabled
    /\ IF pagination.current > 0
       THEN loadCount < MaxLoads /\ Load([state EXCEPT !.page = pagination.current - 1])
       ELSE NoLoad
    /\ event' = [type |-> "prevClick"]
    /\ UNCHANGED <<searchTimeout, timers, nextTimerId, elapsed, inputValue>>
    /\ UNCHANGED serverVars

\* nextButton "click" listener; a disabled button dispatches no click
NextClick ==
    /\ ~dom.nextDisabled
    /\ IF pagination.current + 1 < pagination.total
       THEN loadCount < MaxLoads /\ Load([state EXCEPT !.page = pagination.current + 1])
       ELSE NoLoad
    /\ event' = [type |-> "nextClick"]
    /\ UNCHANGED <<searchTimeout, timers, nextTimerId, elapsed, inputValue>>
    /\ UNCHANGED serverVars

\* the envelope's result for the parameters of a fetch when the search text
\* selects totalItems records: what the list endpoint computes, the rows
\* standing for the records at those positions of the sorted list
ListPayload(query, totalItems) ==
    LET totalPages  == CeilDiv(totalItems, RESIDENTS_PAGE_SIZE)
        currentPage == ClampPage(RequestedPage(query), totalPages).n
        startIndex  == currentPage * RESIDENTS_PAGE_SIZE
        endIndex    == IF startIndex + RESIDENTS_PAGE_SIZE > totalItems THEN totalItems
                       ELSE startIndex + RESIDENTS_PAGE_SIZE
    IN  [pagination |-> [current |-> currentPage, total |-> totalPages,
                         totalItems |-> totalItems],
         sort       |-> [by |-> ResolveSortBy(query), order |-> ResolveSortOrder(query)],
         columns    |-> RESIDENTS_LIST_COLUMNS,
         items      |-> [i \in 1..(endIndex - startIndex) |-> startIndex + i]]

Remove(seq, k) == SubSeq(seq, 1, k - 1) \o SubSeq(seq, k + 1, Len(seq))

\* load() after its await, the try branch: fetch k is answered with a valid
\* envelope
FetchSuccess(k, totalItems) ==
    /\ k \in 1..Len(fetches)
    /\ LET result == ListPayload(fetches[k].query, totalItems)
           st     == [state EXCEPT !.sortBy = result.sort.by,
                                   !.sortOrder = result.sort.order]
       IN  /\ columns' = result.columns
           /\ state' = st
           /\ items' = result.items
           /\ pagination' = result.pagination
           /\ loading' = FALSE
           /\ dom' = Render(result.columns, result.items, result.pagination, FALSE, st,
                            "", dom)
    /\ fetches' = Remove(fetches, k)
    /\ event' = [type |-> "response"]
    /\ UNCHANGED <<searchTimeout, timers, nextTimerId, elapsed, inputValue, loadCount>>
    /\ UNCHANGED serverVars

\* the messages of the errors load() catches: a rejected fetch, a status that
\* is not ok, an envelope without success or result
LoadErrors == {"TypeError: Failed to fetch", "Error: Request failed: 500",
               "Error: Invalid API response"}

\* the catch branch that leaves the loading flag as it is
FetchFailureStillLoading(k, error) ==
    /\ k \in 1..Len(fetches)
    /\ items' = <<>>
    /\ pagination' = ZeroPagination
    /\ dom' = Render(columns, <<>>, ZeroPagination, loading, state, error, dom)
    /\ fetches' = Remove(fetches, k)
    /\ event' = [type |-> "failure"]
    /\ UNCHANGED <<state, columns, loading, searchTimeout, timers, nextTimerId, elapsed,
                   inputValue, loadCount>>
    /\ UNCHANGED serverVars

\* load() after its await, the catch branch: fetch k fails with error
FetchFailure(k, error) ==
    /\ k \in 1..Len(fetches)
    /\ loading' = FALSE
    /\ items' = <<>>
    /\ pagination' = ZeroPagination
    /\ dom' = Render(columns, <<>>, ZeroPagination, FALSE, state, error, dom)
    /\ fetches' = Remove(fetches, k)
    /\ event' = [type |-> "failure"]
    /\ UNCHANGED <<state, columns, searchTimeout, timers, nextTimerId, elapsed,
                   inputValue, loadCount>>
    /\ UNCHANGED serverVars

\* the characters typed into the search box
InputChars == {"a", " "}

\* the header cells whose sort button the user clicks
ClickedColumns == {2}

\* the numbers of records a search selects
TotalItemsChoices == {0, RESIDENTS_PAGE_SIZE * MaxFullPages + 5}

InitClient ==
    /\ demoResidents = <<>>
    /\ request = <<>>
    /\ response = [status |-> 0]
    /\ now = [s |-> 0, ms |-> 0]
    /\ sessionStore = <<>>
    /\ sessionsIssued = 0
    /\ call = [fn |-> "none"]
    /\ returned = [fn |-> "none"]
    /\ \E options \in {<<"", "asc">>, <<"responsible_staff", "desc">>} :
          Constructed(options[1], options[2])

NextClient ==
    \/ \E c \in InputChars : SearchInput(c) /\ UNCHANGED serverVars
    \/ Tick
    \/ SearchTimer
    \/ \E i \in ClickedColumns : SortClick(i) /\ UNCHANGED serverVars
    \/ PrevClick
    \/ NextClick
    \/ \E k \in 1..MaxLoads, n \in TotalItemsChoices : FetchSuccess(k, n)
    \/ \E k \in 1..MaxLoads, error \in LoadErrors : FetchFailure(k, error)

SpecClient == InitClient /\ [][NextClient]_vars

---------------------------------------------------------------------------
(* The record collections and the requests explored *)

Str_Al    == <<"A", "l">>
Str_al    == <<"a", "l">>
Str_Bo    == <<"B", "o">>
Str_BO    == <<"B", "O">>
Str_reha  == <<"r", "e", "h", "a">>
Str_atesh == <<"a", "t", "e", "s", "h">>

\* The raw records a collection is built from: two that differ in letter case
\* only, one without last name, birth date and room, one with blanks around
\* its names; three share the responsible staff, two the birth date.
ProfilePool == <<
    [profile |-> [first_name |-> JsStr(Str_Al), last_name |-> JsStr(Str_Bo),
                  responsible_staff |-> JsStr(Str_reha), date_of_birth |-> JsStr(<<"1", "9", "4", "0">>),
                  gender |-> JsStr(<<"f">>), room |-> JsStr(<<"1", "2", "B">>)],
     visits  |-> <<[date |-> JsStr(<<"b">>), caretaker |-> JsStr(Str_atesh)],
                   [date |-> JsStr(<<"c">>), caretaker |-> JsStr(Str_reha)],
                   [date |-> JsStr(<<"c">>), caretaker |-> JsStr(<<"z">>)]>>],
    [profile |-> [first_name |-> JsStr(Str_al), last_name |-> JsStr(Str_BO),
                  responsible_staff |-> JsStr(Str_atesh), date_of_birth |-> JsStr(<<"1", "9", "4", "0">>),
                  gender |-> JsStr(<<"m">>), room |-> JsStr(<<"2">>)],
     visits  |-> <<>>],
    [profile |-> [first_name |-> JsStr(Str_Bo), responsible_staff |-> JsStr(Str_reha),
                  gender |-> JsStr(<<"f">>)],
     visits  |-> <<[caretaker |-> JsStr(Str_reha)],
                   [date |-> JsStr(<<"c">>), caretaker |-> JsStr(Str_atesh)]>>],
    [profile |-> [first_name |-> JsStr(<<" ", "b">>), last_name |-> JsStr(<<"A", "l", " ">>),
                  responsible_staff |-> JsStr(Str_reha), date_of_birth |-> JsStr(<<"1", "9", "3", "9">>),
                  gender |-> JsStr(<<"m">>), room |-> JsStr(<<"2">>)]] >>

\* the pool record k stored under uuid i (the uuid strings are numbered)
Resident(k, i) ==
    [ProfilePool[k] EXCEPT !.profile = [uuid |-> JsStr(i)] @@ ProfilePool[k].profile]

SeqsUpTo(S, n) == UNION {[1..k -> S] : k \in 0..n}

\* every arrangement of up to MaxResidents pool records
SmallCollections ==
    {[i \in 1..Len(c) |-> Resident(c[i], i)] :
        c \in SeqsUpTo(1..Len(ProfilePool), MaxResidents)}

\* collections of 0..MaxFullPages whole pages plus none, one or five records
LargeSizes == {RESIDENTS_PAGE_SIZE * k + d : k \in 0..MaxFullPages, d \in {0, 1, 5}}

LargeCollections ==
    {[i \in 1..n |-> Resident(((i - 1) % Len(ProfilePool)) + 1, i)] : n \in LargeSizes}

\* an absent parameter is the empty set, a present one the set of its value
Optional(S) == {{}} \cup {{v} : v \in S}

\* req.query: the parameters that are present
MakeQuery(p, q, sort_by, sort_order) ==
    [k \in {"p" : x \in p} |-> CHOOSE x \in p : TRUE]
    @@ [k \in {"q" : x \in q} |-> CHOOSE x \in q : TRUE]
    @@ [k \in {"sort_by" : x \in sort_by} |-> CHOOSE x \in sort_by : TRUE]
    @@ [k \in {"sort_order" : x \in sort_order} |-> CHOOSE x \in sort_order : TRUE]

\* values of p: every string of up to MaxPLen of these characters
PChars == {"0", "2", "-", ".", "x", " "}
PStrings == SeqsUpTo(PChars, MaxPLen)

\* values of q
SearchTexts == {<<>>, <<" ">>, <<"A", "L">>, <<" ", "b", "O", " ">>,
                <<"b", " ", "a">>, <<"z">>}

\* values of sort_by: the whitelist, the empty string and an unknown key
SortByValues == {RESIDENTS_SORT_FIELDS[i] : i \in 1..Len(RESIDENTS_SORT_FIELDS)}
                \cup {"", "bogus_field"}

\* values of sort_order
SortOrderValues == {"asc", "desc", "DESC"}

\* requests that vary the search and the sort
SortQueries ==
    {MakeQuery(p, q, sb, so) :
        p \in {{}}, q \in Optional(SearchTexts),
        sb \in Optional(SortByValues), so \in Optional(SortOrderValues)}

\* requests that vary the page, and requests of the first page that sort
PageQueries ==
    {MakeQuery(p, q, sb, so) :
        p \in Optional(PStrings), q \in {{}, {<<"z">>}},
        sb \in {{}}, so \in {{}}}
    \cup {MakeQuery({}, q, {"room"}, so) :
            q \in {{}, {<<"a">>}}, so \in Optional({"desc"})}

---------------------------------------------------------------------------
(* demo_api: the server as a state machine *)

NoResponse == [status |-> 0]

\* no function of the tools module is under consideration
NoCall == [fn |-> "none"]

\* no request has arrived
NoRequest == [none |-> TRUE]

\* the state when a list request has arrived and is yet to be handled
InitServer(collections, queries) ==
    /\ demoResidents \in collections
    /\ request \in queries
    /\ response = NoResponse
    /\ now = [s |-> 0, ms |-> 0]
    /\ sessionStore = <<>>
    /\ sessionsIssued = 0
    /\ call = NoCall
    /\ returned = NoCall

\* the handler that filters and sorts the shared collection itself instead of
\* the copy
HandleListInPlace ==
    /\ response = NoResponse
    /\ "uuid" \notin DOMAIN request
    /\ "none" \notin DOMAIN request
    /\ response' = ListResidents(demoResidents, request)
    /\ LET sorted == FilteredSorted(demoResidents, request)
       IN  demoResidents' =
               [i \in 1..Len(sorted) |->
                   demoResidents[CHOOSE k \in 1..Len(demoResidents) :
                                    ResidentWithMeta(demoResidents[k]).uuid = sorted[i].uuid]]
    /\ UNCHANGED <<request, now, call, returned, sessionStore, sessionsIssued>>
    /\ UNCHANGED clientVars

\* router.get("/residents"): the request (one without path parameter) is
\* handled; the record collection is
\* read, never written (the handler sorts the copy that map() or filter() made)
HandleList ==
    /\ response = NoResponse
    /\ "uuid" \notin DOMAIN request
    /\ "none" \notin DOMAIN request
    /\ response' = ListResidents(demoResidents, request)
    /\ UNCHANGED <<demoResidents, request, now, call, returned, sessionStore, sessionsIssued>>
    /\ UNCHANGED clientVars

InitList == InitServer(SmallCollections, SortQueries) /\ Constructed("", "asc")
NextList == HandleList
SpecList == InitList /\ [][NextList]_vars

InitPage == InitServer(LargeCollections, PageQueries) /\ Constructed("", "asc")
NextPage == HandleList
SpecPage == InitPage /\ [][NextPage]_vars


---------------------------------------------------------------------------
(* Properties of the list endpoint *)

Served == response.status = 200
Result == response.body.result
Page == Result.pagination

\* the sortable keys, as the specification lists them
SortableKeys == {"name", "responsible_staff", "birth_date", "gender", "room",
                 "last_visit_date", "last_visit_staff"}

\* the page asked for, when p is absent or a plain decimal number
PlainPage ==
    IF "p" \notin DOMAIN request THEN 0 ELSE DecimalValue(request.p)
HasPlainPage ==
    "p" \in DOMAIN request => request.p # <<>> /\ AllIn(request.p, Digits)

\* the search text as the filter applies it
SearchText == IF "q" \in DOMAIN request THEN ToLowerCase(Trim(request.q)) ELSE <<>>

\* first, last and full name of the stored record with uuid u
FirstNameOf(u) == StringField(demoResidents[u].profile, "first_name")
LastNameOf(u) == StringField(demoResidents[u].profile, "last_name")
FullNameOf(u) == Trim(FirstNameOf(u) \o <<" ">> \o LastNameOf(u))

\* the stored records the search text selects
Matching ==
    {u \in 1..Len(demoResidents) :
        \/ Includes(ToLowerCase(FirstNameOf(u)), SearchText)
        \/ Includes(ToLowerCase(LastNameOf(u)), SearchText)
        \/ Includes(ToLowerCase(FullNameOf(u)), SearchText)}

\* the sort fields of the stored record behind item i of the response
Source(i) == ResidentWithMeta(demoResidents[Result.items[i].uuid])
Direction == IF Result.sort.order = "desc" THEN -1 ELSE 1
Reverse(seq) == [i \in 1..Len(seq) |-> seq[Len(seq) + 1 - i]]

\* C1: for every list request, current is a non-negative integer, with
\* 0 <= current < total when totalItems > 0 and current = 0 when totalItems = 0.
C1_CurrentInRange ==
    Served =>
        /\ ~Page.current.nan
        /\ Page.current.n >= 0
        /\ (Page.totalItems > 0 => Page.current.n < Page.total)
        /\ (Page.totalItems = 0 => Page.current.n = 0)

\* C2: total = ceil(totalItems / 20); a requested page within 0..total-1 is
\* answered with that page, one beyond the last page with the last page and no
\* error; 45 records and p=2 give {current 2, total 3, totalItems 45}, 5 items.
C2_TotalAndClamp ==
    Served /\ HasPlainPage =>
        /\ Page.total * 20 >= Page.totalItems
        /\ (Page.total > 0 => (Page.total - 1) * 20 < Page.totalItems)
        /\ Page.total >= 0
        /\ (PlainPage <= Page.total - 1 => Page.current = Num(PlainPage))
        /\ (Page.total > 0 /\ PlainPage > Page.total - 1 =>
                /\ Page.current = Num(Page.total - 1)
                /\ response.body.success = TRUE
                /\ response.body.error = JsNull)
        /\ (Page.total = 0 => Page.current = Num(0))
        /\ (Page.totalItems = 45 /\ PlainPage = 2 =>
                /\ Page = [current |-> Num(2), total |-> 3, totalItems |-> 45]
                /\ Len(Result.items) = 5)

\* a page beyond the last one was requested of 45 records and the last page,
\* with its 5 items, was served
C2_Witness ==
    /\ Served
    /\ HasPlainPage
    /\ PlainPage > 2
    /\ Page = [current |-> Num(2), total |-> 3, totalItems |-> 45]
    /\ Len(Result.items) = 5

\* C3: a sort_by outside the whitelist (or absent, or empty) is answered with
\* sort.by = "name" and no error, a whitelisted one with itself; sort.by is
\* always whitelisted.
C3_SortKeyWhitelisted ==
    Served =>
        /\ Result.sort.by \in SortableKeys
        /\ response.body.success = TRUE
        /\ response.body.error = JsNull
        /\ IF "sort_by" \in DOMAIN request /\ request.sort_by \in SortableKeys
           THEN Result.sort.by = request.sort_by
           ELSE Result.sort.by = "name"

\* an unknown sort key was requested and the default key was applied
C3_Witness ==
    /\ Served
    /\ "sort_by" \in DOMAIN request
    /\ request.sort_by = "bogus_field"
    /\ Result.sort.by = "name"
    /\ response.body.success = TRUE

\* C4: every item's full name contains the trimmed, lower-cased search text,
\* whatever the letter case; every record whose first, last or full name
\* contains it is counted in totalItems; an empty or blank q selects all.
C4_FilterByName ==
    Served =>
        /\ \A i \in 1..Len(Result.items) :
              /\ Result.items[i].name = FullNameOf(Result.items[i].uuid)
              /\ Includes(ToLowerCase(Result.items[i].name), SearchText)
        /\ Page.totalItems = Cardinality(Matching)
        /\ {Result.items[i].uuid : i \in 1..Len(Result.items)} = Matching
        /\ (SearchText = <<>> => Page.totalItems = Len(demoResidents))

\* an upper-case search text selected some, not all, of the records, one of
\* them by its full name only
C4_Witness ==
    /\ Served
    /\ "q" \in DOMAIN request
    /\ request.q = <<" ", "b", "O", " ">>
    /\ Page.totalItems > 0
    /\ Page.totalItems < Len(demoResidents)
    /\ \E i \in 1..Len(Result.items) : Result.items[i].name = <<"A", "l", " ", "B", "o">>

\* C5: the items are the filtered records, each once, in an order the
\* comparator agrees with, and records that compare equal keep the order they
\* have in the record collection; so the order is the same for every request
\* with the same parameters.
C5_StableSort ==
    Served =>
        /\ Len(Result.items) = Cardinality(Matching)
        /\ {Result.items[i].uuid : i \in 1..Len(Result.items)} = Matching
        /\ \A i, j \in 1..Len(Result.items) :
              i < j =>
                LET c == CompareResidents(Source(i), Source(j), Result.sort.by, Direction)
                IN  /\ c <= 0
                    /\ (c = 0 => Result.items[i].uuid < Result.items[j].uuid)

\* a descending sort returned two records that compare equal, in stored order
C5_Witness ==
    /\ Served
    /\ Result.sort.order = "desc"
    /\ \E i, j \in 1..Len(Result.items) :
          /\ i < j
          /\ CompareResidents(Source(i), Source(j), Result.sort.by, Direction) = 0
          /\ Result.items[i].uuid < Result.items[j].uuid

\* C6 as stated: for both directions, items whose sort-key values compare
\* equal appear in ascending order of their full name.
C6_TiesAscendingByName ==
    Served =>
        \A i, j \in 1..Len(Result.items) :
            i < j /\ CompareKey(Source(i), Source(j), Result.sort.by) = 0 =>
                LocaleCompare(Result.items[i].name, Result.items[j].name) <= 0

\* C6 amended: items whose sort-key values compare equal appear in ascending
\* order of their full name when the direction is ascending and in descending
\* order of their full name when the direction is descending.
C6_TiesByNameInDirection ==
    Served =>
        \A i, j \in 1..Len(Result.items) :
            i < j /\ CompareKey(Source(i), Source(j), Result.sort.by) = 0 =>
                LocaleCompare(Result.items[i].name, Result.items[j].name) * Direction <= 0

\* a descending sort returned two records with equal sort-key values, the
\* greater name first although it is stored after the lesser one
C6_Witness ==
    /\ Served
    /\ Result.sort.order = "desc"
    /\ \E i, j \in 1..Len(Result.items) :
          /\ i < j
          /\ CompareKey(Source(i), Source(j), Result.sort.by) = 0
          /\ LocaleCompare(Result.items[i].name, Result.items[j].name) > 0
          /\ Result.items[i].uuid > Result.items[j].uuid

\* C7: the order is descending exactly when sort_order is "desc" and is
\* echoed in sort.order; when no two filtered records compare equal, the
\* descending order is the reverse of the ascending order.
C7_DescendingIsReverse ==
    Served =>
        /\ Result.sort.order =
              (IF "sort_order" \in DOMAIN request /\ request.sort_order = "desc"
               THEN "desc" ELSE "asc")
        /\ (/\ Result.sort.order = "desc"
            /\ \A i, j \in 1..Len(Result.items) :
                  i # j => CompareResidents(Source(i), Source(j), Result.sort.by, 1) # 0)
           => Result.items =
                Reverse(ListResidents(demoResidents,
                                      [request EXCEPT !.sort_order = "asc"]).body.result.items)

\* a descending sort of records no two of which are equal, two of them with
\* equal sort-key values, was served
C7_Witness ==
    /\ Served
    /\ Result.sort.order = "desc"
    /\ Len(Result.items) >= 2
    /\ \A i, j \in 1..Len(Result.items) :
          i # j => CompareResidents(Source(i), Source(j), Result.sort.by, 1) # 0
    /\ \E i \in 1..(Len(Result.items) - 1) :
          CompareKey(Source(i), Source(i + 1), Result.sort.by) = 0

---------------------------------------------------------------------------
(* Properties of TableView *)

\* C8: a click on the sort button of the active column flips state.sortOrder
\* and keeps state.sortBy; a click on another column makes it the sort column,
\* ascending; either way state.page becomes 0, state.query stays and exactly
\* one load is started.
C8_SortClick ==
    [][event'.type = "sortClick" =>
          /\ state'.sortBy = event'.sort_key
          /\ IF state.sortBy = event'.sort_key
             THEN \/ state.sortOrder = "asc" /\ state'.sortOrder = "desc"
                  \/ state.sortOrder = "desc" /\ state'.sortOrder = "asc"
             ELSE state'.sortOrder = "asc"
          /\ state'.page = 0
          /\ state'.query = state.query
          /\ loadCount' = loadCount + 1
          /\ Len(fetches') = Len(fetches) + 1
          /\ loading']_vars

\* a sort button was clicked while page 1 was shown, and page 0 of the new
\* order is being loaded
C8_Witness ==
    /\ event.type = "sortClick"
    /\ pagination.current > 0
    /\ state.page = 0
    /\ loading
    /\ Len(fetches) > 0
    /\ fetches[Len(fetches)].query.p = <<"0">>
    /\ fetches[Len(fetches)].query.sort_by = event.sort_key

\* C9: in every reachable state Previous is disabled exactly when
\* pagination.current <= 0 and Next exactly when
\* pagination.current + 1 >= pagination.total.
C9_ButtonsDisabledAtBounds ==
    /\ dom.prevDisabled <=> pagination.current <= 0
    /\ dom.nextDisabled <=> pagination.current + 1 >= pagination.total

\* C10: a keystroke starts no load, it clears the pending timer and sets a new
\* one of 250 ms, so that at most one timer is pending; the timer fires only
\* when 250 ms have passed since the last keystroke, and its load takes the
\* trimmed input value as state.query and 0 as state.page; no other handler
\* sets or clears a timer, so a burst of keystrokes ends in one load.
C10_Debounce ==
    /\ [][event'.type = "input" =>
            /\ fetches' = fetches
            /\ loadCount' = loadCount
            /\ state' = state
            /\ loading' = loading
            /\ timers' = {[id |-> searchTimeout', remaining |-> DEBOUNCE_MS]}]_vars
    /\ [][event'.type = "timer" =>
            /\ elapsed >= DEBOUNCE_MS
            /\ timers' = {}
            /\ state'.query = Trim(inputValue)
            /\ state'.page = 0
            /\ loadCount' = loadCount + 1
            /\ Len(fetches') = Len(fetches) + 1]_vars
    /\ [][event'.type \notin {"input", "timer"} =>
            {t.id : t \in timers'} = {t.id : t \in timers}]_vars
    /\ [](Cardinality(timers) <= 1)

\* two keystrokes were followed by one load of page 0 with the trimmed text,
\* while page 1 was shown
C10_Witness ==
    /\ event.type = "timer"
    /\ nextTimerId = 3
    /\ inputValue = <<"a", " ">>
    /\ state.query = <<"a">>
    /\ state.page = 0
    /\ pagination.current > 0
    /\ timers = {}
    /\ fetches[Len(fetches)].query.q = <<"a">>

---------------------------------------------------------------------------
(* Properties of TableView: failed loads and the table body *)

\* C11: a step in which a load fails empties items, zeroes the pagination,
\* leaves loading false and shows the error in the table body, and it starts
\* no load; a load is started only by a due search timer, a sort click or a
\* click on an enabled Previous or Next button (and by the constructor).
C11_FailureShowsErrorNoRetry ==
    /\ [][event'.type = "failure" =>
            /\ items' = <<>>
            /\ pagination' = ZeroPagination
            /\ loading' = FALSE
            /\ dom'.tbody.message \in LoadErrors
            /\ dom'.tbody.rows = <<>>
            /\ loadCount' = loadCount
            /\ Len(fetches') = Len(fetches) - 1]_vars
    /\ [][loadCount' # loadCount =>
            \/ event'.type \in {"timer", "sortClick"}
            \/ event'.type = "prevClick" /\ ~dom.prevDisabled
            \/ event'.type = "nextClick" /\ ~dom.nextDisabled]_vars

\* C12: the table body shows "Loading..." while loading; after a failed load
\* it shows the error, after an answered load with no items the empty
\* message, and otherwise one row per item and no message.
C12_BodyShowsStatus ==
    /\ loading => dom.tbody = [message |-> "Loading...", rows |-> <<>>]
    /\ ~loading /\ event.type = "failure" =>
          dom.tbody.message \in LoadErrors /\ dom.tbody.rows = <<>>
    /\ ~loading /\ event.type = "response" =>
          dom.tbody = IF items = <<>> THEN [message |-> "No results.", rows |-> <<>>]
                      ELSE [message |-> "", rows |-> items]

---------------------------------------------------------------------------
(* tools: labels(key, values) *)

\* `INVALID_KEY("${invalidKey}")`
InvalidKey(invalidKey) ==
    <<"I", "N", "V", "A", "L", "I", "D", "_", "K", "E", "Y", "(", "\"">>
    \o invalidKey \o <<"\"", ")">>

\* the while loop: the position after the digits that start at cursor
RECURSIVE DigitRunEnd(_, _)
DigitRunEnd(template, cursor) ==
    IF cursor <= Len(template) /\ template[cursor] \in Digits
    THEN DigitRunEnd(template, cursor + 1)
    ELSE cursor

\* the token $n stands for, read 0-based
TokenAtZeroBased(tokens, numberText) ==
    LET index == ParseInt(numberText).n
        value == IF index >= 0 /\ index < Len(tokens) THEN tokens[index + 1]
                 ELSE JsStr(<<>>)
    IN  IF IsNullish(value) THEN <<>> ELSE JsString(value)

\* what is pushed for $numberText: the token at index parseInt(numberText) - 1,
\* "" when there is none or it is null or undefined
TokenAt(tokens, numberText) ==
    LET index == ParseInt(numberText).n - 1
        value == IF index >= 0 /\ index < Len(tokens) THEN tokens[index + 1]
                 ELSE JsStr(<<>>)
    IN  IF IsNullish(value) THEN <<>> ELSE JsString(value)

\* the for loop of labels() from position i (1-based) on: what it pushes
RECURSIVE Interpolate(_, _, _)
Interpolate(template, tokens, i) ==
    IF i > Len(template) THEN <<>>
    ELSE LET char       == template[i]
             escaped    == char = "\\" /\ i < Len(template) /\ template[i + 1] = "$"
             cursor     == DigitRunEnd(template, i + 1)
             numberText == SubSeq(template, i + 1, cursor - 1)
         IN  IF escaped
             THEN <<"$">> \o Interpolate(template, tokens, i + 2)
             ELSE IF char = "$" /\ numberText # <<>>
             THEN TokenAt(tokens, numberText) \o Interpolate(template, tokens, cursor)
             ELSE <<char>> \o Interpolate(template, tokens, i + 1)

\* labels() that skips the test of the template's type
LabelsAnyTemplate(labelsEnUs, key, values) ==
    LET lookupKey == IF key.t = "string" THEN key.v ELSE <<>>
        tokens    == IF values.t = "undefined" THEN <<>>
                     ELSE IF values.t = "array" THEN values.v ELSE <<values>>
    IN  IF lookupKey = <<>> \/ lookupKey \notin DOMAIN labelsEnUs
        THEN InvalidKey(IF key.t = "string" THEN key.v ELSE JsString(key))
        ELSE Interpolate(JsString(labelsEnUs[lookupKey]), tokens, 1)

\* labels(key, values) over the label table labelsEnUs; values is undefined
\* when the argument is left out
Labels(labelsEnUs, key, values) ==
    LET lookupKey == IF key.t = "string" THEN key.v ELSE <<>>
        tokens    == IF values.t = "undefined" THEN <<>>
                     ELSE IF values.t = "array" THEN values.v ELSE <<values>>
    IN  IF lookupKey = <<>> \/ lookupKey \notin DOMAIN labelsEnUs
        THEN InvalidKey(IF key.t = "string" THEN key.v ELSE JsString(key))
        ELSE LET template == labelsEnUs[lookupKey]
             IN  IF template.t # "string" THEN InvalidKey(lookupKey)
                 ELSE Interpolate(template.v, tokens, 1)

\* the characters of the label templates explored
TemplateChars == {"$", "\\", "0", "1", "2", "a"}
Templates == SeqsUpTo(TemplateChars, MaxTemplateLen)

Str_hi  == <<"h", "i">>
Str_bad == <<"b", "a", "d">>

\* a label table: one key with the template, one key with a value that is not
\* a string, and the empty key
LabelTable(template) ==
    [k \in {Str_hi, Str_bad, <<>>} |->
        IF k = Str_hi THEN JsStr(template)
        ELSE IF k = Str_bad THEN JsNum(5)
        ELSE JsStr(<<"x">>)]

\* keys asked for: known, unknown, empty, mapped to a non-string, not a string
LabelKeys == {JsStr(Str_hi), JsStr(<<"n", "o">>), JsStr(<<>>), JsStr(Str_bad),
              JsNull, JsUndefined, JsNum(7)}

\* the values argument: left out, arrays with strings, numbers, null and
\* undefined, and values that are not arrays
LabelValues == {JsUndefined, JsArr(<<>>), JsArr(<<JsStr(<<"x">>)>>),
                JsArr(<<JsNull, JsNum(12)>>),
                JsArr(<<JsStr(<<"$", "1">>), JsUndefined>>),
                JsStr(<<"y">>), JsNull}

LabelCalls ==
    {[fn |-> "labels", labelsEnUs |-> LabelTable(tpl), key |-> JsStr(Str_hi),
      values |-> v] : tpl \in Templates, v \in LabelValues}
    \cup
    {[fn |-> "labels", labelsEnUs |-> LabelTable(<<"a", "$", "1">>), key |-> k,
      values |-> v] : k \in LabelKeys, v \in {JsUndefined, JsArr(<<JsStr(<<"x">>)>>)}}

\* the state when labels() has been called and has yet to return
InitLabels ==
    /\ demoResidents = <<>>
    /\ request = <<>>
    /\ response = NoResponse
    /\ now = [s |-> 0, ms |-> 0]
    /\ sessionStore = <<>>
    /\ sessionsIssued = 0
    /\ call \in LabelCalls
    /\ returned = NoCall
    /\ Constructed("", "asc")

\* labels(key, values) returns
CallLabels ==
    /\ call.fn = "labels"
    /\ returned = NoCall
    /\ returned' = [fn |-> "labels",
                    value |-> Labels(call.labelsEnUs, call.key, call.values)]
    /\ UNCHANGED <<demoResidents, request, response, now, call, sessionStore, sessionsIssued>>
    /\ UNCHANGED clientVars

NextLabels == CallLabels
SpecLabels == InitLabels /\ [][NextLabels]_vars

---------------------------------------------------------------------------
(* Properties of labels() *)

LabelReturned == returned.fn = "labels"

\* the key cannot be resolved: not a string, empty, not an own key of the
\* table, or mapped to something that is not a string
Unresolved ==
    \/ call.key.t # "string"
    \/ call.key.v = <<>>
    \/ call.key.v \notin DOMAIN call.labelsEnUs
    \/ call.labelsEnUs[call.key.v].t # "string"

\* the text has the form INVALID_KEY("...")
IsPlaceholder(text) ==
    /\ Len(text) >= 15
    /\ SubSeq(text, 1, 13) =
         <<"I", "N", "V", "A", "L", "I", "D", "_", "K", "E", "Y", "(", "\"">>
    /\ SubSeq(text, Len(text) - 1, Len(text)) = <<"\"", ")">>

Args ==
    IF call.values.t = "undefined" THEN <<>>
    ELSE IF call.values.t = "array" THEN call.values.v
    ELSE <<call.values>>

\* the text of positional argument n (1-based): empty when out of range or null
ArgText(n) ==
    IF n \in 1..Len(Args) /\ ~IsNullish(Args[n]) THEN JsString(Args[n]) ELSE <<>>

\* the length of the maximal run of digits after the first character of t
DigitRun(t) ==
    CHOOSE k \in 0..(Len(t) - 1) :
        /\ \A j \in 2..(k + 1) : t[j] \in Digits
        /\ k + 2 <= Len(t) => t[k + 2] \notin Digits

\* the template mini-language: the expansion of t, token by token
RECURSIVE Expand(_)
Expand(t) ==
    IF t = <<>> THEN <<>>
    ELSE IF Len(t) >= 2 /\ t[1] = "\\" /\ t[2] = "$"
    THEN <<"$">> \o Expand(SubSeq(t, 3, Len(t)))
    ELSE IF t[1] = "$" /\ DigitRun(t) > 0
    THEN ArgText(DecimalValue(SubSeq(t, 2, DigitRun(t) + 1)))
         \o Expand(SubSeq(t, DigitRun(t) + 2, Len(t)))
    ELSE <<t[1]>> \o Expand(Tail(t))

\* C15: for a known key the result is the expansion of the template: $ with a
\* maximal run of digits becomes the positional argument of that number (1-based),
\* empty when the number is outside 1..len(values) or the argument is null; \$
\* becomes $; every other character is copied in order.
C15_Interpolation ==
    LabelReturned /\ ~Unresolved =>
        returned.value = Expand(call.labelsEnUs[call.key.v].v)

\* the template \$$2 with the arguments [null, 12] gave $12
C15_Witness ==
    /\ LabelReturned
    /\ call.key = JsStr(Str_hi)
    /\ call.labelsEnUs[Str_hi] = JsStr(<<"\\", "$", "$", "2">>)
    /\ call.values = JsArr(<<JsNull, JsNum(12)>>)
    /\ returned.value = <<"$", "1", "2">>

---------------------------------------------------------------------------
(* health_enums: the field schema tables *)

HEALTH_ENUM_GROUPS == <<
    [key |-> "independence", label_key |-> "health.category.independence",
     options |-> <<
       [value |-> "independent",
        label_key |-> "health.independence.independent"],
       [value |-> "partial-assistance",
        label_key |-> "health.independence.partial-assistance"],
       [value |-> "full-care",
        label_key |-> "health.independence.full-care"]>>],
    [key |-> "mobility", label_key |-> "health.category.mobility",
     options |-> <<
       [value |-> "normal",
        label_key |-> "health.mobility.normal"],
       [value |-> "bedridden",
        label_key |-> "health.mobility.bedridden"],
       [value |-> "wheelchair-dependent",
        label_key |-> "health.mobility.wheelchair-dependent"],
       [value |-> "crutches-or-cane",
        label_key |-> "health.mobility.crutches-or-cane"],
       [value |-> "slow-or-unstable-walking",
        label_key |-> "health.mobility.slow-or-unstable-walking"]>>],
    [key |-> "motor_function", label_key |-> "health.category.motor-function",
     options |-> <<
       [value |-> "normal-hand-function",
        label_key |-> "health.motor-function.normal-hand-function"],
       [value |-> "limited-hand-function",
        label_key |-> "health.motor-function.limited-hand-function"],
       [value |-> "fine-motor-difficulty",
        label_key |-> "health.motor-function.fine-motor-difficulty"]>>],
    [key |-> "vision", label_key |-> "health.category.vision",
     options |-> <<
       [value |-> "normal",
        label_key |-> "health.vision.normal"],
       [value |-> "impaired",
        label_key |-> "health.vision.impaired"],
       [value |-> "blind",
        label_key |-> "health.vision.blind"]>>],
    [key |-> "hearing", label_key |-> "health.category.hearing",
     options |-> <<
       [value |-> "normal",
        label_key |-> "health.hearing.normal"],
       [value |-> "impaired",
        label_key |-> "health.hearing.impaired"],
       [value |-> "deaf",
        label_key |-> "health.hearing.deaf"]>>],
    [key |-> "cognitive_status", label_key |-> "health.category.cognitive-status",
     options |-> <<
       [value |-> "normal-cognition",
        label_key |-> "health.cognitive-status.normal-cognition"],
       [value |-> "mild-cognitive-impairment",
        label_key |-> "health.cognitive-status.mild-cognitive-impairment"],
       [value |-> "dementia-alzheimers-symptoms",
        label_key |-> "health.cognitive-status.dementia-alzheimers-symptoms"]>>] >>

HEALTH_FREE_TEXT_FIELDS == <<
    [key |-> "chronic_illness", label_key |-> "health.free-text.chronic-illness",
     notes_key |-> "health.free-text.chronic-illness.notes"],
    [key |-> "medications", label_key |-> "health.free-text.medications",
     notes_key |-> "health.free-text.medications.notes"],
    [key |-> "allergies", label_key |-> "health.free-text.allergies",
     notes_key |-> "health.free-text.allergies.notes"],
    [key |-> "medical_history", label_key |-> "health.free-text.medical-history",
     notes_key |-> "health.free-text.medical-history.notes"] >>

HEALTH_EQUIPMENT_FIELDS == <<
    [key |-> "artificial_pacemaker",
     label_key |-> "health.equipment.artificial-pacemaker"],
    [key |-> "catheter",
     label_key |-> "health.equipment.catheter"],
    [key |-> "chemotherapy_port",
     label_key |-> "health.equipment.chemotherapy-port"],
    [key |-> "cochlear_implant",
     label_key |-> "health.equipment.cochlear-implant"],
    [key |-> "contact_lens",
     label_key |-> "health.equipment.contact-lens"],
    [key |-> "cpap",
     label_key |-> "health.equipment.cpap"],
    [key |-> "eyeglasses",
     label_key |-> "health.equipment.eyeglasses"],
    [key |-> "hearing_aid",
     label_key |-> "health.equipment.hearing-aid"],
    [key |-> "cardio_defibrillator_iacd",
     label_key |-> "health.equipment.cardio-defibrillator-iacd"],
    [key |-> "insulin_pump",
     label_key |-> "health.equipment.insulin-pump"],
    [key |-> "oxygen",
     label_key |-> "health.equipment.oxygen"],
    [key |-> "prosthetic_heart_valves",
     label_key |-> "health.equipment.prosthetic-heart-valves"],
    [key |-> "bioprosthetic",
     label_key |-> "health.equipment.bioprosthetic"] >>

\* the icons are left out: the builder does not read them
VISIT_CATEGORIES == <<
    [key |-> "medical-care", label_key |-> "visits.category.medical-care",
     actions |-> <<
       [key |-> "medication-administration",
        label_key |-> "visits.action.medication-administration",
        type |-> "boolean"],
       [key |-> "wound-care-dressing",
        label_key |-> "visits.action.wound-care-dressing",
        type |-> "boolean"],
       [key |-> "injections-iv-therapy",
        label_key |-> "visits.action.injections-iv-therapy",
        type |-> "boolean"],
       [key |-> "medical-reporting-referrals",
        label_key |-> "visits.action.medical-reporting-referrals",
        type |-> "boolean"]>>,
     groups |-> <<
       [key |-> "vital-measurements",
        label_key |-> "visits.group.vital-measurements",
        actions |-> <<
          [key |-> "blood-pressure",
           label_key |-> "visits.action.blood-pressure",
           type |-> "text"],
          [key |-> "pulse",
           label_key |-> "visits.action.pulse",
           type |-> "text"],
          [key |-> "temperature",
           label_key |-> "visits.action.temperature",
           type |-> "text"],
          [key |-> "oxygen-saturation",
           label_key |-> "visits.action.oxygen-saturation",
           type |-> "text"]>>]>>],
    [key |-> "personal-care", label_key |-> "visits.category.personal-care",
     actions |-> <<
       [key |-> "toileting-incontinence-care",
        label_key |-> "visits.action.toileting-incontinence-care",
        type |-> "boolean"],
       [key |-> "dressing-undressing-assistance",
        label_key |-> "visits.action.dressing-undressing-assistance",
        type |-> "boolean"],
       [key |-> "feeding-assistance",
        label_key |-> "visits.action.feeding-assistance",
        type |-> "boolean"],
       [key |-> "companionship-emotional-support",
        label_key |-> "visits.action.companionship-emotional-support",
        type |-> "boolean"]>>,
     groups |-> <<
       [key |-> "personal-hygiene",
        label_key |-> "visits.group.personal-hygiene",
        actions |-> <<
          [key |-> "in-bed-body-cleaning",
           label_key |-> "visits.action.in-bed-body-cleaning",
           type |-> "boolean"],
          [key |-> "bathing-shower-assistance",
           label_key |-> "visits.action.bathing-shower-assistance",
           type |-> "boolean"],
          [key |-> "hair-cutting-care",
           label_key |-> "visits.action.hair-cutting-care",
           type |-> "boolean"],
          [key |-> "nail-care",
           label_key |-> "visits.action.nail-care",
           type |-> "boolean"]>>],
       [key |-> "mobility-support",
        label_key |-> "visits.group.mobility-support",
        actions |-> <<
          [key |-> "assisted-walking",
           label_key |-> "visits.action.assisted-walking",
           type |-> "boolean"],
          [key |-> "transfers-bed-to-chair",
           label_key |-> "visits.action.transfers-bed-to-chair",
           type |-> "boolean"],
          [key |-> "wheelchair-use",
           label_key |-> "visits.action.wheelchair-use",
           type |-> "boolean"]>>]>>],
    [key |-> "housekeeping", label_key |-> "visits.category.housekeeping",
     actions |-> <<
       [key |-> "room-cleaning-tidying",
        label_key |-> "visits.action.room-cleaning-tidying",
        type |-> "boolean"],
       [key |-> "laundry-clothing-care",
        label_key |-> "visits.action.laundry-clothing-care",
        type |-> "boolean"],
       [key |-> "bed-linen-changes",
        label_key |-> "visits.action.bed-linen-changes",
        type |-> "boolean"],
       [key |-> "shared-space-maintenance",
        label_key |-> "visits.action.shared-space-maintenance",
        type |-> "boolean"]>>,
     groups |-> <<
       [key |-> "environmental-hygiene",
        label_key |-> "visits.group.environmental-hygiene",
        actions |-> <<
          [key |-> "disinfection",
           label_key |-> "visits.action.disinfection",
           type |-> "boolean"],
          [key |-> "odor-control",
           label_key |-> "visits.action.odor-control",
           type |-> "boolean"]>>]>>],
    [key |-> "supportive-services", label_key |-> "visits.category.supportive-services",
     actions |-> <<>>,
     groups |-> <<
       [key |-> "meal-service-dietary-monitoring",
        label_key |-> "visits.group.meal-service-dietary-monitoring",
        actions |-> <<
          [key |-> "regular-meals",
           label_key |-> "visits.action.regular-meals",
           type |-> "boolean"],
          [key |-> "tube-feeding",
           label_key |-> "visits.action.tube-feeding",
           type |-> "boolean"],
          [key |-> "iv-nutrition",
           label_key |-> "visits.action.iv-nutrition",
           type |-> "boolean"],
          [key |-> "other-nutrition-methods",
           label_key |-> "visits.action.other-nutrition-methods",
           type |-> "boolean"],
          [key |-> "meal-refused",
           label_key |-> "visits.action.meal-refused",
           type |-> "boolean"]>>],
       [key |-> "activity-support",
        label_key |-> "visits.group.activity-support",
        actions |-> <<
          [key |-> "rehabilitation-exercises",
           label_key |-> "visits.action.rehabilitation-exercises",
           type |-> "boolean"],
          [key |-> "group-activities",
           label_key |-> "visits.action.group-activities",
           type |-> "boolean"]>>]>>] >>

---------------------------------------------------------------------------
(* resident_localization: tables *)

\* The label table of labels_en_us.mjs for the keys the builder asks for: some
\* keys have a label, every other key has none, so that resolveLabel takes
\* both of its branches.  Labels and label keys are only passed on and
\* compared, so they are plain strings.
labelsEnUs ==
    [k \in {"profile.first_name", "profile.room", "profile.location",
            "gender.long.male", "health.category.mobility", "health.mobility.normal",
            "health.free-text.allergies", "health.free-text.allergies.notes",
            "health.equipment.oxygen", "update_log", "visits", "visits.date",
            "visits.last_visit", "visits.action.pulse",
            "visits.action.medication-administration",
            "visits.category.medical-care", "visits.group.vital-measurements"} |->
        CASE k = "profile.first_name" -> "First Name"
          [] k = "profile.room" -> "Room"
          [] k = "profile.location" -> "Location"
          [] k = "gender.long.male" -> "Male"
          [] k = "health.category.mobility" -> "Mobility"
          [] k = "health.mobility.normal" -> "Normal"
          [] k = "health.free-text.allergies" -> "Allergies"
          [] k = "health.free-text.allergies.notes" -> "List known allergies"
          [] k = "health.equipment.oxygen" -> "Oxygen"
          [] k = "update_log" -> "Update Log"
          [] k = "visits" -> "Visits"
          [] k = "visits.date" -> "Date"
          [] k = "visits.last_visit" -> "Last Visit"
          [] k = "visits.action.pulse" -> "Pulse"
          [] k = "visits.action.medication-administration" -> "Medication"
          [] k = "visits.category.medical-care" -> "Medical Care"
          [] k = "visits.group.vital-measurements" -> "Vital Measurements"]

\* resolveLabel(labelKey, fallback): labelsEnUs[labelKey] || fallback
ResolveLabel(labelKey, fallback) ==
    IF labelKey \in DOMAIN labelsEnUs /\ labelsEnUs[labelKey] # ""
    THEN labelsEnUs[labelKey] ELSE fallback

RECURSIVE Flatten(_)
Flatten(seqs) == IF seqs = <<>> THEN <<>> ELSE Head(seqs) \o Flatten(Tail(seqs))

\* The calls of VISIT_ACTION_LOOKUP.set in the order the loops make them; a
\* group label key of null is the empty string (only its truthiness is read).
VisitActionSets ==
    Flatten([c \in 1..Len(VISIT_CATEGORIES) |->
        LET category == VISIT_CATEGORIES[c]
            direct   == [a \in 1..Len(category.actions) |->
                           [key |-> category.actions[a].key,
                            label_key |-> category.actions[a].label_key,
                            type |-> category.actions[a].type,
                            category_label_key |-> category.label_key,
                            group_label_key |-> ""]]
            grouped  == Flatten([g \in 1..Len(category.groups) |->
                           [a \in 1..Len(category.groups[g].actions) |->
                              [key |-> category.groups[g].actions[a].key,
                               label_key |-> category.groups[g].actions[a].label_key,
                               type |-> category.groups[g].actions[a].type,
                               category_label_key |-> category.label_key,
                               group_label_key |-> category.groups[g].label_key]]])
        IN  direct \o grouped])

\* VISIT_ACTION_LOOKUP.has(key) and .get(key): the entry set last for the key
VISIT_ACTION_LOOKUP_Has(key) ==
    \E i \in 1..Len(VisitActionSets) : VisitActionSets[i].key = key
VISIT_ACTION_LOOKUP_Get(key) ==
    LET last == CHOOSE i \in 1..Len(VisitActionSets) :
                    /\ VisitActionSets[i].key = key
                    /\ \A j \in (i + 1)..Len(VisitActionSets) :
                          VisitActionSets[j].key # key
    IN  VisitActionSets[last]

PROFILE_FIELD_ORDER == <<
    "uuid", "image", "active", "created_at", "updated_at", "created_by",
    "updated_by", "responsible_staff", "first_name", "last_name", "gender", "room",
    "date_of_birth", "birthplace", "nationality", "identification_number",
    "address", "blood_type", "home_phone", "mobile_phone" >>

PROFILE_HIDDEN_FIELDS == {"uuid", "image", "active"}
PROFILE_READONLY_FIELDS == {"created_at", "created_by", "updated_at", "updated_by"}
PROFILE_TEXTAREA_FIELDS == {"address"}
HEALTH_TEXTAREA_FIELDS == {"chronic_illness", "medications", "allergies",
                           "medical_history", "relatives"}

\* BLOOD_TYPE_OPTIONS, each with its toUpperCase()
BLOOD_TYPE_OPTIONS == <<
    [value |-> "0 rh+", label |-> "0 RH+"], [value |-> "0 rh-", label |-> "0 RH-"],
    [value |-> "a rh+", label |-> "A RH+"], [value |-> "a rh-", label |-> "A RH-"],
    [value |-> "b rh+", label |-> "B RH+"], [value |-> "b rh-", label |-> "B RH-"],
    [value |-> "ab rh+", label |-> "AB RH+"], [value |-> "ab rh-", label |-> "AB RH-"] >>

\* createProfileSelectOptions().get(key)
ProfileSelectOptions(key) ==
    CASE key = "gender" ->
           <<[value |-> "male", label |-> ResolveLabel("gender.long.male", "Male")],
             [value |-> "female", label |-> ResolveLabel("gender.long.female", "Female")]>>
      [] key = "responsible_staff" ->
           [i \in 1..Len(DEMO_USERS) |->
              [value |-> DEMO_USERS[i].username, label |-> DEMO_USERS[i].username]]
      [] key = "blood_type" -> BLOOD_TYPE_OPTIONS
      [] OTHER -> JsUndefined

---------------------------------------------------------------------------
(* resident_localization: formatVisitDate *)

\* the formatting that writes "days" for every count of days
RelativeOfDaysPlural(parsedSeconds, at) ==
    LET isFuture   == parsedSeconds > at.s
        absSeconds == IF isFuture
                      THEN parsedSeconds - at.s - (IF at.ms > 0 THEN 1 ELSE 0)
                      ELSE at.s - parsedSeconds
        suffix     == IF isFuture THEN "from now" ELSE "ago"
    IN  IF absSeconds < 60 THEN "just now"
        ELSE IF absSeconds < 3600 THEN ToString(absSeconds \div 60) \o " min " \o suffix
        ELSE IF absSeconds < 86400 THEN ToString(absSeconds \div 3600) \o " hr " \o suffix
        ELSE IF absSeconds < 2592000
        THEN ToString(absSeconds \div 86400) \o " days " \o suffix
        ELSE ToString(absSeconds \div 2592000) \o " mo " \o suffix

\* The relative string of formatVisitDate for a date parsed to parsedSeconds,
\* at the time at: diffMs is 1000 * (parsedSeconds - at.s) - at.ms with
\* 0 <= at.ms < 1000, so it is positive exactly when parsedSeconds > at.s, and
\* Math.floor(Math.abs(diffMs) / 1000) loses a second to at.ms only then.
RelativeOf(parsedSeconds, at) ==
    LET isFuture   == parsedSeconds > at.s
        absSeconds == IF isFuture
                      THEN parsedSeconds - at.s - (IF at.ms > 0 THEN 1 ELSE 0)
                      ELSE at.s - parsedSeconds
        suffix     == IF isFuture THEN "from now" ELSE "ago"
    IN  IF absSeconds < 60 THEN "just now"
        ELSE IF absSeconds < 3600 THEN ToString(absSeconds \div 60) \o " min " \o suffix
        ELSE IF absSeconds < 86400 THEN ToString(absSeconds \div 3600) \o " hr " \o suffix
        ELSE IF absSeconds < 2592000
        THEN ToString(absSeconds \div 86400) \o " day"
             \o (IF absSeconds \div 86400 = 1 THEN "" ELSE "s") \o " " \o suffix
        ELSE ToString(absSeconds \div 2592000) \o " mo " \o suffix

\* formatVisitDate(dateValue) at the time at
FormatVisitDate(dateValue, at) ==
    IF dateValue = <<>> \/ DateGetTime(dateValue).nan
    THEN [displayDate |-> "", relative |-> ""]
    ELSE [displayDate |-> DisplayDate(dateValue),
          relative    |-> RelativeOf(DateGetTime(dateValue).n, at)]

---------------------------------------------------------------------------
(* resident_localization: buildLocalizedResident *)

\* A raw record is an object; its profile, health and equipment_used are
\* objects or missing, its visits and update_log arrays (sequences) or
\* missing; the entries of the arrays are objects.  An object with ordered
\* keys that the builder fills is the sequence of its entries, each with its
\* key.

\* the truthiness of a value
JsTruthy(value) ==
    CASE ~IsObject(value) /\ value.t = "string"  -> value.v # <<>>
      [] ~IsObject(value) /\ value.t = "number"  -> value.v # 0
      [] ~IsObject(value) /\ value.t = "boolean" -> value.v
      [] ~IsObject(value) /\ value.t \in {"null", "undefined"} -> FALSE
      [] OTHER -> TRUE

\* value || ""
OrEmpty(value) == IF JsTruthy(value) THEN value ELSE JsStr(<<>>)

\* an assignment that puts a new key in front of the keys that are there
AssignKeyPrepending(entries, entry) == <<entry>> \o entries

\* obj[entry.key] = entry: a key that is there keeps its place
AssignKey(entries, entry) ==
    IF \E i \in 1..Len(entries) : entries[i].key = entry.key
    THEN [i \in 1..Len(entries) |->
            IF entries[i].key = entry.key THEN entry ELSE entries[i]]
    ELSE Append(entries, entry)

RECURSIVE AssignAll(_, _)
AssignAll(entries, news) ==
    IF news = <<>> THEN entries
    ELSE AssignAll(AssignKey(entries, Head(news)), Tail(news))

\* the loop body handing on the raw value as it is read
ProfileDescriptorRaw(resident, key) ==
    [key        |-> key,
     value      |-> IF JsTruthy(Get(resident, "profile")) THEN Get(resident.profile, key)
                    ELSE JsNull,
     label      |-> ResolveLabel("profile." \o key, key),
     hidden     |-> key \in PROFILE_HIDDEN_FIELDS,
     readonly   |-> key \in PROFILE_READONLY_FIELDS,
     input_type |-> IF key \in PROFILE_TEXTAREA_FIELDS THEN "textarea" ELSE "text",
     options    |-> ProfileSelectOptions(key)]

\* the body of the loop over PROFILE_FIELD_ORDER
ProfileDescriptor(resident, key) ==
    LET value == IF JsTruthy(Get(resident, "profile")) THEN Get(resident.profile, key)
                 ELSE JsNull
        normalizedValue ==
            IF key = "image" \/ key = "room"
            THEN (IF value.t = "undefined" THEN JsNull ELSE value)
            ELSE (IF IsNullish(value) THEN JsStr(<<>>) ELSE value)
    IN  [key        |-> key,
         value      |-> normalizedValue,
         label      |-> ResolveLabel("profile." \o key, key),
         hidden     |-> key \in PROFILE_HIDDEN_FIELDS,
         readonly   |-> key \in PROFILE_READONLY_FIELDS,
         input_type |-> IF key \in PROFILE_TEXTAREA_FIELDS THEN "textarea" ELSE "text",
         options    |-> ProfileSelectOptions(key)]

\* roomValue taken as stored, without trim()
RoomValueUntrimmed(resident) ==
    IF JsTruthy(Get(resident, "profile")) /\ Get(resident.profile, "room").t = "string"
    THEN resident.profile.room.v
    ELSE <<>>

\* roomValue
RoomValue(resident) ==
    IF JsTruthy(Get(resident, "profile")) /\ Get(resident.profile, "room").t = "string"
    THEN Trim(resident.profile.room.v)
    ELSE <<>>

\* profile.location
LocationDescriptor(resident) ==
    [key   |-> "location",
     value |-> IF RoomValue(resident) # <<>>
               THEN JsStr(<<"R", "o", "o", "m", " ">> \o RoomValue(resident))
               ELSE JsStr(<<"H", "o", "m", "e">>),
     label |-> ResolveLabel("profile.location", "Location")]

\* the body of the loop over HEALTH_ENUM_GROUPS
HealthGroupDescriptor(resident, group) ==
    LET value == IF JsTruthy(Get(resident, "health")) THEN Get(resident.health, group.key)
                 ELSE JsStr(<<>>)
    IN  [key     |-> group.key,
         value   |-> IF IsNullish(value) THEN JsStr(<<>>) ELSE value,
         label   |-> ResolveLabel(group.label_key, group.key),
         options |-> [o \in 1..Len(group.options) |->
                        [value |-> group.options[o].value,
                         label |-> ResolveLabel(group.options[o].label_key,
                                                group.options[o].value)]]]

\* the body of the loop over HEALTH_FREE_TEXT_FIELDS
HealthTextDescriptor(resident, field) ==
    LET value == IF JsTruthy(Get(resident, "health")) THEN Get(resident.health, field.key)
                 ELSE JsStr(<<>>)
    IN  [key        |-> field.key,
         value      |-> IF IsNullish(value) THEN JsStr(<<>>) ELSE value,
         label      |-> ResolveLabel(field.label_key, field.key),
         notes      |-> ResolveLabel(field.notes_key, ""),
         input_type |-> IF field.key \in HEALTH_TEXTAREA_FIELDS THEN "textarea"
                        ELSE "text"]

\* the body of the loop over HEALTH_EQUIPMENT_FIELDS
EquipmentDescriptor(resident, field) ==
    LET value == IF JsTruthy(Get(resident, "equipment_used"))
                 THEN Get(resident.equipment_used, field.key)
                 ELSE JsBool(FALSE)
    IN  [key   |-> field.key,
         value |-> JsBool(JsTruthy(value)),
         label |-> ResolveLabel(field.label_key, field.key)]

\* one element of updateLogEntries
UpdateLogEntry(entry) ==
    [date    |-> [value |-> OrEmpty(Get(entry, "date")),
                  label |-> ResolveLabel("update_log.date", "Date")],
     user_id |-> [value |-> OrEmpty(Get(entry, "user_id")),
                  label |-> ResolveLabel("update_log.user_id", "User ID")],
     fields  |-> [value |-> IF "fields" \in DOMAIN entry THEN entry.fields ELSE <<>>,
                  label |-> ResolveLabel("update_log.fields", "Fields")]]

\* the callback defaulting every action without a string as value to ""
VisitActionTextDefault(action) ==
    LET key   == action.key.v
        meta  == VISIT_ACTION_LOOKUP_Has(key)
        entry == VISIT_ACTION_LOOKUP_Get(key)
    IN  [key      |-> action.key,
         label    |-> ResolveLabel(IF meta THEN entry.label_key ELSE "", key),
         value    |-> IF Get(action, "value").t = "string" THEN action.value
                      ELSE JsStr(<<>>),
         category |-> IF meta THEN ResolveLabel(entry.category_label_key, "") ELSE "",
         group    |-> IF meta /\ entry.group_label_key # ""
                      THEN ResolveLabel(entry.group_label_key, "") ELSE ""]

\* one element of entry.actions.map(...); an action key is a string, held
\* whole since it is only looked up
VisitAction(action) ==
    LET key   == action.key.v
        meta  == VISIT_ACTION_LOOKUP_Has(key)
        entry == VISIT_ACTION_LOOKUP_Get(key)
    IN  [key      |-> action.key,
         label    |-> ResolveLabel(IF meta THEN entry.label_key ELSE "", key),
         value    |-> IF Get(action, "value").t = "string" THEN action.value
                      ELSE IF meta /\ entry.type = "boolean" THEN JsBool(TRUE)
                      ELSE JsStr(<<>>),
         category |-> IF meta THEN ResolveLabel(entry.category_label_key, "") ELSE "",
         group    |-> IF meta /\ entry.group_label_key # ""
                      THEN ResolveLabel(entry.group_label_key, "") ELSE ""]

\* one element of visitsEntries
VisitEntry(entry) ==
    [date      |-> [value |-> OrEmpty(Get(entry, "date")),
                    label |-> ResolveLabel("visits.date", "Date")],
     caretaker |-> [value |-> OrEmpty(Get(entry, "caretaker")),
                    label |-> ResolveLabel("visits.caretaker", "Caretaker")],
     actions   |-> [label |-> ResolveLabel("visits.actions", "Actions"),
                    items |-> IF "actions" \in DOMAIN entry
                              THEN [a \in 1..Len(entry.actions) |->
                                      VisitAction(entry.actions[a])]
                              ELSE <<>>]]

\* the loop keeping the date of the last dated visit of the list
RECURSIVE LastVisitDateOfLastEntry(_, _)
LastVisitDateOfLastEntry(visits, lastVisitDate) ==
    IF visits = <<>> THEN lastVisitDate
    ELSE LET visit == Head(visits)
         IN  IF ~IsObject(visit) \/ Get(visit, "date").t # "string"
             THEN LastVisitDateOfLastEntry(Tail(visits), lastVisitDate)
             ELSE LastVisitDateOfLastEntry(Tail(visits), visit.date.v)

\* the loop of buildLastVisitSummary over the visits from the first on
RECURSIVE LastVisitDate(_, _)
LastVisitDate(visits, lastVisitDate) ==
    IF visits = <<>> THEN lastVisitDate
    ELSE LET visit == Head(visits)
         IN  IF ~IsObject(visit) \/ Get(visit, "date").t # "string"
             THEN LastVisitDate(Tail(visits), lastVisitDate)
             ELSE IF lastVisitDate = <<>> \/ StringGreater(visit.date.v, lastVisitDate)
             THEN LastVisitDate(Tail(visits), visit.date.v)
             ELSE LastVisitDate(Tail(visits), lastVisitDate)

\* buildLastVisitSummary(visits) at the time at; visits that is no array is
\* the empty sequence
BuildLastVisitSummary(visits, at) ==
    LET formatted == FormatVisitDate(LastVisitDate(visits, <<>>), at)
    IN  [label    |-> ResolveLabel("visits.last_visit", "Last Visit"),
         date     |-> [value |-> formatted.displayDate,
                       label |-> ResolveLabel("visits.date", "Date")],
         relative |-> [value |-> formatted.relative,
                       label |-> ResolveLabel("visits.relative", "Relative")],
         display  |-> IF formatted.displayDate # ""
                      THEN formatted.displayDate
                           \o (IF formatted.relative # ""
                               THEN " (" \o formatted.relative \o ")" ELSE "")
                      ELSE ""]

\* resident.visits when it is an array
VisitsOf(resident) == IF "visits" \in DOMAIN resident THEN resident.visits ELSE <<>>

\* buildLocalizedResident(resident) at the time at
BuildLocalizedResident(resident, at) ==
    [profile |->
        AssignKey(
            AssignAll(<<>>, [i \in 1..Len(PROFILE_FIELD_ORDER) |->
                                ProfileDescriptor(resident, PROFILE_FIELD_ORDER[i])]),
            LocationDescriptor(resident)),
     health |->
        AssignAll(
            AssignAll(<<>>, [i \in 1..Len(HEALTH_ENUM_GROUPS) |->
                                HealthGroupDescriptor(resident, HEALTH_ENUM_GROUPS[i])]),
            [i \in 1..Len(HEALTH_FREE_TEXT_FIELDS) |->
                HealthTextDescriptor(resident, HEALTH_FREE_TEXT_FIELDS[i])]),
     equipment_used |->
        AssignAll(<<>>, [i \in 1..Len(HEALTH_EQUIPMENT_FIELDS) |->
                            EquipmentDescriptor(resident, HEALTH_EQUIPMENT_FIELDS[i])]),
     update_log |->
        [label   |-> ResolveLabel("update_log", "Update Log"),
         entries |-> IF "update_log" \in DOMAIN resident
                     THEN [e \in 1..Len(resident.update_log) |->
                             UpdateLogEntry(resident.update_log[e])]
                     ELSE <<>>],
     visits |->
        [label   |-> ResolveLabel("visits", "Visits"),
         entries |-> [e \in 1..Len(VisitsOf(resident)) |->
                        VisitEntry(VisitsOf(resident)[e])]],
     last_visit |-> BuildLastVisitSummary(VisitsOf(resident), at)]

---------------------------------------------------------------------------
(* demo_api: GET /residents/:uuid *)

\* the handler answering an unknown uuid as the list endpoint answers an empty
\* page: with 200 and no error
ResidentDetailAlwaysOk(residents, params, at) ==
    LET found == {i \in 1..Len(residents) :
                     /\ JsTruthy(Get(residents[i], "profile"))
                     /\ Get(residents[i].profile, "uuid") = params.uuid}
    IN  [status |-> 200,
         body   |-> [success |-> TRUE,
                     error   |-> JsNull,
                     result  |-> IF found = {} THEN JsNull
                                 ELSE BuildLocalizedResident(
                                          residents[CHOOSE i \in found :
                                                       \A j \in found : i <= j], at)]]

\* router.get("/residents/:uuid") at the time at: find() returns the first
\* record with a truthy profile whose uuid is the path parameter
ResidentDetail(residents, params, at) ==
    LET found == {i \in 1..Len(residents) :
                     /\ JsTruthy(Get(residents[i], "profile"))
                     /\ Get(residents[i].profile, "uuid") = params.uuid}
    IN  IF found = {}
        THEN [status |-> 404,
              body   |-> [success |-> FALSE,
                          error   |-> [code |-> 404, message |-> "Resident not found."],
                          result  |-> JsNull]]
        ELSE [status |-> 200,
              body   |-> [success |-> TRUE,
                          error   |-> JsNull,
                          result  |-> BuildLocalizedResident(
                                          residents[CHOOSE i \in found :
                                                       \A j \in found : i <= j], at)]]

---------------------------------------------------------------------------
(* resident records, visits and calls the builder is applied to *)

MaxVisits == 2

Date_May1  == <<"2", "0", "2", "4", "-", "0", "5", "-", "0", "1", "T", "1", "0", ":", "0", "0", ":", "0", "0", "Z">>
Date_May2  == <<"2", "0", "2", "4", "-", "0", "5", "-", "0", "2", "T", "0", "9", ":", "3", "0", ":", "0", "0", "Z">>
Date_Short == <<"x">>
Str_12B    == <<"1", "2", "B">>

\* Raw profiles: one with every kind of value, a key outside the schema and
\* its keys out of schema order; rooms that are padded, blank, empty, null and
\* not a string; a first name that is null.
RawProfiles == {
    [nickname |-> JsStr(Str_Al), room |-> JsStr(Str_12B), last_name |-> JsStr(Str_Bo),
     first_name |-> JsStr(Str_Al), active |-> JsBool(FALSE), image |-> JsStr(<<"a", ".", "p">>),
     gender |-> JsStr(<<"m">>)],
    [first_name |-> JsStr(Str_Bo), room |-> JsStr(<<" ", "1", "2", "B", " ">>)],
    [first_name |-> JsNull, room |-> JsStr(<<" ", " ">>), image |-> JsNull],
    [room |-> JsStr(<<>>), active |-> JsBool(TRUE)],
    [room |-> JsNull, address |-> JsNum(7)],
    [room |-> JsNum(7)],
    [first_name |-> JsStr(Str_Al)] }

\* resident.profile: an object, null or missing
ProfileChoices == {{p} : p \in RawProfiles} \cup {{JsNull}, {}}

\* resident.health
HealthChoices == {
    {},
    {JsNull},
    {[mood |-> JsStr(<<"o", "k">>), allergies |-> JsStr(<<"n", "u", "t", "s">>),
      mobility |-> JsStr(<<"n", "o", "r", "m", "a", "l">>), vision |-> JsNull,
      medications |-> JsNum(2)]} }

\* resident.equipment_used
EquipmentChoices == {
    {},
    {[oxygen |-> JsBool(TRUE), cpap |-> JsBool(FALSE), catheter |-> JsStr(<<"y">>),
      eyeglasses |-> JsNum(0), hearing_aid |-> JsNull, walker |-> JsBool(TRUE)]} }

\* resident.update_log
UpdateLogChoices == {
    {},
    {<<[date |-> JsStr(Date_May1), user_id |-> JsStr(Str_reha),
        fields |-> <<"room", "address">>],
       [user_id |-> JsNull]>>} }

\* Raw visits: actions of text and of boolean kind with and without a value,
\* an action key outside the lookup, two visits on the same date, a visit
\* without date or actions, and dates that are no string or no date.
RawVisits == {
    [date |-> JsStr(Date_May1), caretaker |-> JsStr(Str_atesh),
     actions |-> <<[key |-> JsStr("pulse"), value |-> JsStr(<<"7", "2">>)],
                   [key |-> JsStr("medication-administration")],
                   [key |-> JsStr("foot-massage")]>>],
    [date |-> JsStr(Date_May2), caretaker |-> JsStr(Str_reha),
     actions |-> <<[key |-> JsStr("temperature")],
                   [key |-> JsStr("nail-care"), value |-> JsBool(FALSE)],
                   [key |-> JsStr("foot-massage"), value |-> JsStr(<<"o", "k">>)]>>],
    [date |-> JsStr(Date_May2), caretaker |-> JsStr(<<"z">>), actions |-> <<>>],
    [caretaker |-> JsStr(Str_reha)],
    [date |-> JsNum(3), caretaker |-> JsNull],
    [date |-> JsStr(Date_Short), caretaker |-> JsNum(5)] }

\* resident.visits: missing, or up to MaxVisits raw visits
VisitsChoices == {{}} \cup {{v} : v \in SeqsUpTo(RawVisits, MaxVisits)}

\* the record with these parts (a part that is the empty set is missing)
RawResident(profile, health, equipment_used, update_log, visits) ==
    [k \in {"profile" : x \in profile} |-> CHOOSE x \in profile : TRUE]
    @@ [k \in {"health" : x \in health} |-> CHOOSE x \in health : TRUE]
    @@ [k \in {"equipment_used" : x \in equipment_used} |->
            CHOOSE x \in equipment_used : TRUE]
    @@ [k \in {"update_log" : x \in update_log} |-> CHOOSE x \in update_log : TRUE]
    @@ [k \in {"visits" : x \in visits} |-> CHOOSE x \in visits : TRUE]

FirstProfile == [first_name |-> JsStr(Str_Al), room |-> JsStr(Str_12B)]

\* the records: every profile with every health and equipment object, and one
\* profile with every update log and visit list
RawResidents ==
    {RawResident(p, h, e, {}, {}) :
        p \in ProfileChoices, h \in HealthChoices, e \in EquipmentChoices}
    \cup {RawResident({FirstProfile}, {}, {}, u, v) :
            u \in UpdateLogChoices, v \in VisitsChoices}

\* the arguments of buildLastVisitSummary: visit lists that may also hold null
\* as an entry, and undefined (no array)
SummaryArguments == SeqsUpTo(RawVisits \cup {JsNull}, MaxVisits)

\* what Date.now() returns: a time after every visit and one 26 hours before
\* the last of them, half a second into the second
Clocks == {[s |-> 1714730400, ms |-> 0], [s |-> 1714548599, ms |-> 500]}

---------------------------------------------------------------------------
(* the resident endpoints and the builder as a state machine *)

\* the record stored under uuid i (the uuid strings are numbered)
WithUuid(resident, i) ==
    [resident EXCEPT !.profile = [uuid |-> JsStr(i)] @@ @]

\* the collections the endpoints serve: up to MaxResidents records, each
\* under one of two uuids (so two records may share one) or with a profile
\* that is null
ServedResidents ==
    {WithUuid(RawResident({FirstProfile}, {}, {}, {}, {v}), i) :
        i \in 1..2, v \in SeqsUpTo(RawVisits, MaxVisits)}
    \cup {WithUuid(RawResident({p}, {}, {}, {}, {}), i) : i \in 1..2, p \in RawProfiles}
    \cup {RawResident({JsNull}, {}, {}, {}, {})}

\* two records: the first without a profile, or under the uuid of the second
\* or another
ServedPairs ==
    {<<RawResident({JsNull}, {}, {}, {}, {}),
       WithUuid(RawResident({FirstProfile}, {}, {}, {}, {}), 1)>>}
    \cup {<<WithUuid(RawResident({p}, {}, {}, {}, {}), i),
            WithUuid(RawResident({FirstProfile}, {}, {}, {}, {<<v>>}), 2)>> :
            i \in 1..2, p \in RawProfiles, v \in RawVisits}

ServedCollections == {<<>>} \cup {<<r>> : r \in ServedResidents} \cup ServedPairs

\* req.params of a detail request: the uuids in use and one that is unknown
DetailRequests == {[uuid |-> JsStr(i)] : i \in 1..3}

\* req.query of a list request: no parameter, or a search text
ListRequests == {MakeQuery({}, q, {}, {}) : q \in Optional({<<"a", "l">>})}

\* the calls of the builder and of the summary
BuilderCalls ==
    {[fn |-> "buildLocalizedResident", resident |-> r] : r \in RawResidents}
    \cup {[fn |-> "buildLastVisitSummary", visits |-> v] : v \in SummaryArguments}

\* a request of either endpoint has arrived at a server holding a collection,
\* or the builder or the summary has been called
InitResident ==
    /\ response = NoResponse
    /\ returned = NoCall
    /\ now \in Clocks
    /\ sessionStore = <<>>
    /\ sessionsIssued = 0
    /\ \/ /\ demoResidents \in ServedCollections
          /\ request \in DetailRequests \cup ListRequests
          /\ call = NoCall
       \/ /\ demoResidents = <<>>
          /\ request = NoRequest
          /\ call \in BuilderCalls
    /\ Constructed("", "asc")

\* router.get("/residents/:uuid"): the request is handled
HandleDetail ==
    /\ response = NoResponse
    /\ "uuid" \in DOMAIN request
    /\ response' = ResidentDetail(demoResidents, request, now)
    /\ UNCHANGED <<demoResidents, request, now, call, returned, sessionStore, sessionsIssued>>
    /\ UNCHANGED clientVars

\* buildLocalizedResident(resident) returns
CallBuildLocalizedResident ==
    /\ call.fn = "buildLocalizedResident"
    /\ returned = NoCall
    /\ returned' = [value |-> BuildLocalizedResident(call.resident, now)]
    /\ UNCHANGED <<demoResidents, request, response, now, call, sessionStore, sessionsIssued>>
    /\ UNCHANGED clientVars

\* buildLastVisitSummary(visits) returns
CallBuildLastVisitSummary ==
    /\ call.fn = "buildLastVisitSummary"
    /\ returned = NoCall
    /\ returned' = [value |-> BuildLastVisitSummary(call.visits, now)]
    /\ UNCHANGED <<demoResidents, request, response, now, call, sessionStore, sessionsIssued>>
    /\ UNCHANGED clientVars

NextResident ==
    \/ HandleDetail
    \/ HandleList
    \/ CallBuildLocalizedResident
    \/ CallBuildLastVisitSummary

SpecResident == InitResident /\ [][NextResident]_vars

---------------------------------------------------------------------------
(* Properties of the resident endpoints *)

\* a detail request has been answered
DetailServed == response # NoResponse /\ "uuid" \in DOMAIN request

\* the positions of the records that carry the requested uuid in a profile
KnownAt ==
    {i \in 1..Len(demoResidents) :
        /\ "profile" \in DOMAIN demoResidents[i]
        /\ IsObject(demoResidents[i].profile)
        /\ "uuid" \in DOMAIN demoResidents[i].profile
        /\ demoResidents[i].profile.uuid = request.uuid}

\* C13: the detail endpoint answers an unknown uuid with 404 and the envelope
\* {success: false, error: {code: 404, message}, result: null}, a known uuid
\* with 200 and {success: true, error: null, result: the localized payload of
\* the (first) record with that uuid}; in every response of the list and the
\* detail endpoint success is true exactly when error is null.
C13_DetailEnvelope ==
    /\ DetailServed /\ KnownAt = {} =>
          /\ response.status = 404
          /\ response.body.success = FALSE
          /\ response.body.error.code = 404
          /\ DOMAIN response.body.error = {"code", "message"}
          /\ response.body.result = JsNull
    /\ DetailServed /\ KnownAt # {} =>
          /\ response.status = 200
          /\ response.body.success = TRUE
          /\ response.body.error = JsNull
          /\ \E i \in KnownAt :
                /\ \A j \in KnownAt : i <= j
                /\ response.body.result = BuildLocalizedResident(demoResidents[i], now)
    /\ response # NoResponse =>
          (response.body.success = TRUE <=> response.body.error = JsNull)

\* of two records the first has no profile and the second was found by its
\* uuid and localized
C13_Witness ==
    /\ DetailServed
    /\ Len(demoResidents) = 2
    /\ KnownAt = {2}
    /\ response.status = 200
    /\ response.body.result.profile[1].value = request.uuid

---------------------------------------------------------------------------
(* Properties of buildLocalizedResident *)

\* The raw records that have been localized, each with its payload: the
\* argument and the result of a call of the builder, and the record found
\* and the result sent by the detail endpoint.
Localized ==
    (IF call.fn = "buildLocalizedResident" /\ returned # NoCall
     THEN {[resident |-> call.resident, payload |-> returned.value]} ELSE {})
    \cup (IF DetailServed /\ KnownAt # {}
          THEN {[resident |-> demoResidents[CHOOSE i \in KnownAt : \A j \in KnownAt : i <= j],
                 payload  |-> response.body.result]}
          ELSE {})

\* the keys of the descriptors of a part of the payload, in their order
KeysOf(descriptors) == [i \in 1..Len(descriptors) |-> descriptors[i].key]

NoKeyTwice(keys) == \A i, j \in 1..Len(keys) : keys[i] = keys[j] => i = j

\* the keys a raw record holds in a part (none if the part is no object)
RawKeys(resident, part) ==
    IF part \in DOMAIN resident /\ IsObject(resident[part]) THEN DOMAIN resident[part]
    ELSE {}

\* C16: for every raw record (whatever its keys, a missing or null profile,
\* health or equipment_used included) the payload has exactly one descriptor
\* per schema key in declaration order: the profile keys are PROFILE_FIELD_ORDER
\* followed only by location, the health keys those of HEALTH_ENUM_GROUPS then
\* of HEALTH_FREE_TEXT_FIELDS, the equipment keys those of
\* HEALTH_EQUIPMENT_FIELDS; a raw key outside the schema never appears.
C16_SchemaOrder ==
    \A c \in Localized :
        /\ KeysOf(c.payload.profile) = PROFILE_FIELD_ORDER \o <<"location">>
        /\ KeysOf(c.payload.health)
              = KeysOf(HEALTH_ENUM_GROUPS) \o KeysOf(HEALTH_FREE_TEXT_FIELDS)
        /\ KeysOf(c.payload.equipment_used) = KeysOf(HEALTH_EQUIPMENT_FIELDS)
        /\ NoKeyTwice(KeysOf(c.payload.profile))
        /\ NoKeyTwice(KeysOf(c.payload.health))
        /\ NoKeyTwice(KeysOf(c.payload.equipment_used))
        /\ \A i \in 1..Len(c.payload.profile) :
              c.payload.profile[i].key
                 \in {PROFILE_FIELD_ORDER[k] : k \in 1..Len(PROFILE_FIELD_ORDER)}
                     \cup {"location"}

\* a record that keeps a key outside the schema in front of its schema keys,
\* and has neither health nor equipment_used, was localized by the builder
C16_Witness ==
    /\ call.fn = "buildLocalizedResident"
    /\ returned # NoCall
    /\ "nickname" \in RawKeys(call.resident, "profile")
    /\ RawKeys(call.resident, "health") = {}
    /\ "equipment_used" \notin DOMAIN call.resident
    /\ Len(returned.value.profile) = 21
    /\ Len(returned.value.health) = 10
    /\ Len(returned.value.equipment_used) = 13

\* the raw value of a key of a part: undefined when the part is no object
RawValue(resident, part, key) ==
    IF key \in RawKeys(resident, part) THEN resident[part][key] ELSE JsUndefined

\* the descriptor of a key in a part of the payload
DescriptorOf(descriptors, key) ==
    descriptors[CHOOSE i \in 1..Len(descriptors) : descriptors[i].key = key]

\* C17: a schema field that is absent (undefined or null) on the raw record
\* gets the empty string as value in profile and health, null for image and
\* room, and false in equipment_used, whose values are always booleans; a
\* value that is present is passed through unchanged in profile and health.
C17_AbsentDefaults ==
    \A c \in Localized :
        /\ \A i \in 1..Len(PROFILE_FIELD_ORDER) :
              LET key == PROFILE_FIELD_ORDER[i]
                  raw == RawValue(c.resident, "profile", key)
                  out == DescriptorOf(c.payload.profile, key).value
              IN  IF ~IsNullish(raw) THEN out = raw
                  ELSE IF key \in {"image", "room"} THEN out = JsNull
                  ELSE out = JsStr(<<>>)
        /\ \A key \in {c.payload.health[i].key : i \in 1..Len(c.payload.health)} :
              LET raw == RawValue(c.resident, "health", key)
                  out == DescriptorOf(c.payload.health, key).value
              IN  IF ~IsNullish(raw) THEN out = raw ELSE out = JsStr(<<>>)
        /\ \A i \in 1..Len(c.payload.equipment_used) :
              LET raw == RawValue(c.resident, "equipment_used",
                                  c.payload.equipment_used[i].key)
                  out == c.payload.equipment_used[i].value
              IN  /\ out.t = "boolean"
                  /\ IsNullish(raw) => out = JsBool(FALSE)

\* a profile with a null first name, a null image and a room that is present
\* was localized for a record without equipment_used
C17_Witness ==
    \E c \in Localized :
        /\ RawValue(c.resident, "profile", "first_name") = JsNull
        /\ RawValue(c.resident, "profile", "image") = JsNull
        /\ RawValue(c.resident, "profile", "room").t = "string"
        /\ DescriptorOf(c.payload.profile, "first_name").value = JsStr(<<>>)
        /\ DescriptorOf(c.payload.profile, "image").value = JsNull
        /\ DescriptorOf(c.payload.equipment_used, "oxygen").value = JsBool(FALSE)

\* the room of the raw record when it is a string, else no room text
RoomText(resident) ==
    IF RawValue(resident, "profile", "room").t = "string"
    THEN resident.profile.room.v ELSE <<>>

LocationValue(payload) == DescriptorOf(payload.profile, "location").value

Str_Room == <<"R", "o", "o", "m", " ">>
Str_Home == <<"H", "o", "m", "e">>

\* C18 as stated: a room text that is not empty yields "Room " followed by
\* that text, a missing, null or empty room yields "Home", and the location is
\* never empty and never "Room " followed by nothing.  (Violated: the room is
\* trimmed first.)
C18_LocationFromRoom ==
    \A c \in Localized :
        /\ RoomText(c.resident) # <<>> =>
              LocationValue(c.payload) = JsStr(Str_Room \o RoomText(c.resident))
        /\ IsNullish(RawValue(c.resident, "profile", "room"))
           \/ RawValue(c.resident, "profile", "room") = JsStr(<<>>) =>
              LocationValue(c.payload) = JsStr(Str_Home)
        /\ LocationValue(c.payload) \notin {JsStr(<<>>), JsStr(Str_Room)}

\* C18 (amended): the location is computed from the raw room only: a room
\* text that is not empty once the white space around it is removed yields
\* "Room " followed by the trimmed text; a room that is missing, null, no
\* string, empty or only white space yields "Home"; the location is never
\* empty and never "Room " followed by nothing.
C18_LocationFromTrimmedRoom ==
    \A c \in Localized :
        /\ IF Trim(RoomText(c.resident)) # <<>>
           THEN LocationValue(c.payload) = JsStr(Str_Room \o Trim(RoomText(c.resident)))
           ELSE LocationValue(c.payload) = JsStr(Str_Home)
        /\ LocationValue(c.payload) \notin {JsStr(<<>>), JsStr(Str_Room)}

\* a room with blanks around it was localized without them
C18_Witness ==
    \E c \in Localized :
        /\ RoomText(c.resident) = <<" ", "1", "2", "B", " ">>
        /\ LocationValue(c.payload) = JsStr(Str_Room \o Str_12B)

\* The visit actions the schema declares, read off VISIT_CATEGORIES: those
\* of a category itself and those of its groups.
DeclaredActions ==
    UNION {{VISIT_CATEGORIES[c].actions[a] : a \in 1..Len(VISIT_CATEGORIES[c].actions)}
           \cup UNION {{VISIT_CATEGORIES[c].groups[g].actions[a] :
                           a \in 1..Len(VISIT_CATEGORIES[c].groups[g].actions)} :
                       g \in 1..Len(VISIT_CATEGORIES[c].groups)} :
           c \in 1..Len(VISIT_CATEGORIES)}

\* the declared kind of an action key
DeclaredKind(key) ==
    IF \E d \in DeclaredActions : d.key = key
    THEN (CHOOSE d \in DeclaredActions : d.key = key).type
    ELSE "none"

\* the raw visits of a localized record next to their projections
VisitPairs ==
    UNION {{[raw |-> VisitsOf(c.resident)[e], out |-> c.payload.visits.entries[e]] :
               e \in 1..Len(VisitsOf(c.resident))} : c \in Localized}

RawActions(visit) == IF "actions" \in DOMAIN visit THEN visit.actions ELSE <<>>

\* C19: each raw action is resolved against the visit-action lookup: without
\* an explicit value an action of boolean kind is projected with the value
\* true and an action of text kind with the empty string; an action key the
\* lookup does not know has the raw key as label and an empty category and
\* group; the projected actions are as many as the raw ones, in their order.
C19_VisitActionDefaults ==
    /\ \A c \in Localized : Len(c.payload.visits.entries) = Len(VisitsOf(c.resident))
    /\ \A p \in VisitPairs :
          /\ Len(p.out.actions.items) = Len(RawActions(p.raw))
          /\ \A a \in 1..Len(RawActions(p.raw)) :
                LET action == RawActions(p.raw)[a]
                    item   == p.out.actions.items[a]
                    kind   == DeclaredKind(action.key.v)
                IN  /\ item.key = action.key
                    /\ "value" \notin DOMAIN action /\ kind = "boolean" =>
                          item.value = JsBool(TRUE)
                    /\ "value" \notin DOMAIN action /\ kind = "text" =>
                          item.value = JsStr(<<>>)
                    /\ kind = "none" =>
                          /\ item.label = action.key.v
                          /\ item.category = ""
                          /\ item.group = ""

\* a visit with a text action that has a value, a boolean action that has
\* none and an action outside the lookup was projected
C19_Witness ==
    \E p \in VisitPairs :
        /\ Len(RawActions(p.raw)) = 3
        /\ RawActions(p.raw)[2] = [key |-> JsStr("medication-administration")]
        /\ p.out.actions.items[2].value = JsBool(TRUE)
        /\ p.out.actions.items[2].label = "Medication"
        /\ DeclaredKind(RawActions(p.raw)[3].key.v) = "none"
        /\ p.out.actions.items[3].label = "foot-massage"

\* the dates of the visits that are objects with a string as date
StringDates(visits) ==
    {visits[i].date.v : i \in {j \in 1..Len(visits) :
                                  /\ IsObject(visits[j])
                                  /\ "date" \in DOMAIN visits[j]
                                  /\ visits[j].date.t = "string"}}

\* the greatest of a set of strings that is not empty
Greatest(dates) == CHOOSE m \in dates : \A d \in dates : ~StringGreater(d, m)

\* the summary for the date selected
SummaryFor(date, summary, at) ==
    /\ summary.date.value = FormatVisitDate(date, at).displayDate
    /\ summary.relative.value = FormatVisitDate(date, at).relative
    /\ (summary.display = "") = (summary.date.value = "")

\* the visit lists that were summarized, each with its summary
Summarized ==
    (IF call.fn = "buildLastVisitSummary" /\ returned # NoCall
     THEN {[visits |-> call.visits, summary |-> returned.value]} ELSE {})
    \cup {[visits |-> VisitsOf(c.resident), summary |-> c.payload.last_visit] :
            c \in Localized}

\* the uuid the list gives a record
ListedUuid(resident) ==
    IF RawValue(resident, "profile", "uuid").t = "string" THEN resident.profile.uuid.v
    ELSE 0

\* the name the list shows for a caretaker
CaretakerName(visit) ==
    LET caretaker == StringField(visit, "caretaker")
    IN  IF UsersHas(caretaker) THEN UsersGetName(caretaker) ELSE caretaker

\* C20: the last-visit summary is that of the greatest (in string order) of
\* the dates of the visits that have a string as date, entries that are null
\* or have no string as date being skipped, and is empty when there is no such
\* visit; in the list an item shows that greatest date with the caretaker of
\* a visit that carries it.
C20_LastVisitIsLatest ==
    /\ \A c \in Summarized :
          IF StringDates(c.visits) = {}
          THEN /\ c.summary.date.value = ""
               /\ c.summary.relative.value = ""
               /\ c.summary.display = ""
          ELSE SummaryFor(Greatest(StringDates(c.visits)), c.summary, now)
    /\ response # NoResponse /\ ~DetailServed =>
          \A k \in 1..Len(response.body.result.items) :
             LET item == response.body.result.items[k]
             IN  \E i \in 1..Len(demoResidents) :
                    LET visits == VisitsOf(demoResidents[i])
                    IN  /\ ListedUuid(demoResidents[i]) = item.uuid
                        /\ IF StringDates(visits) = {}
                           THEN /\ item.last_visit_date = <<>>
                                /\ item.last_visit_staff = <<>>
                           ELSE /\ item.last_visit_date = Greatest(StringDates(visits))
                                /\ \E j \in 1..Len(visits) :
                                      /\ Get(visits[j], "date")
                                            = JsStr(item.last_visit_date)
                                      /\ CaretakerName(visits[j]) = item.last_visit_staff

\* the summary of two visits of which the first is the later one shows the
\* date of the first
C20_Witness ==
    /\ call.fn = "buildLastVisitSummary"
    /\ returned # NoCall
    /\ Len(call.visits) = 2
    /\ Get(call.visits[1], "date") = JsStr(Date_May2)
    /\ Get(call.visits[2], "date") = JsStr(Date_May1)
    /\ returned.value.date.value = "2024-05-02 09:30"

---------------------------------------------------------------------------
(* tools and resident_localization: formatRelative; the clock *)

\* formatRelative(value) of the tools module at the time at, for a value that
\* is a string, null or undefined
FormatRelative(value, at) ==
    IF ~JsTruthy(value) THEN ""
    ELSE LET parsedTime == DateGetTime(value.v)
         IN  IF parsedTime.nan THEN ""
             ELSE LET isFuture   == parsedTime.n > at.s
                      absSeconds == IF isFuture
                                    THEN parsedTime.n - at.s - (IF at.ms > 0 THEN 1 ELSE 0)
                                    ELSE at.s - parsedTime.n
                      direction  == IF isFuture THEN "from now" ELSE "ago"
                  IN  IF absSeconds < 60 THEN "just now"
                      ELSE IF absSeconds < 3600
                      THEN ToString(absSeconds \div 60) \o " min " \o direction
                      ELSE IF absSeconds < 86400
                      THEN ToString(absSeconds \div 3600) \o " hr " \o direction
                      ELSE IF absSeconds < 2592000
                      THEN LET days == absSeconds \div 86400
                           IN  ToString(days) \o " day" \o (IF days = 1 THEN "" ELSE "s")
                               \o " " \o direction
                      ELSE ToString(absSeconds \div 2592000) \o " mo " \o direction

\* formatRelative(value) as the localization module exports it
LocalizationFormatRelative(value, at) ==
    IF ~JsTruthy(value) THEN ""
    ELSE LET parsedTime == DateGetTime(value.v)
         IN  IF parsedTime.nan THEN ""
             ELSE LET isFuture   == parsedTime.n > at.s
                      absSeconds == IF isFuture
                                    THEN parsedTime.n - at.s - (IF at.ms > 0 THEN 1 ELSE 0)
                                    ELSE at.s - parsedTime.n
                      direction  == IF isFuture THEN "from now" ELSE "ago"
                  IN  IF absSeconds < 60 THEN "just now"
                      ELSE IF absSeconds < 3600
                      THEN ToString(absSeconds \div 60) \o " min " \o direction
                      ELSE IF absSeconds < 86400
                      THEN ToString(absSeconds \div 3600) \o " hr " \o direction
                      ELSE IF absSeconds < 2592000
                      THEN LET days == absSeconds \div 86400
                           IN  ToString(days) \o " day" \o (IF days = 1 THEN "" ELSE "s")
                               \o " " \o direction
                      ELSE ToString(absSeconds \div 2592000) \o " mo " \o direction

MaxMonths == 2

\* The distances, in whole seconds, between a date and the clock: the ends of
\* every range of the formatting and up to MaxMonths + 1 months.
Distances ==
    {0, 45, 59, 60, 90, 3599, 3600, 7199, 86399, 86400, 172799, 172800, 2591999}
    \cup {2592000 * k : k \in 1..(MaxMonths + 1)}
    \cup {2592000 * k - 1 : k \in 2..(MaxMonths + 1)}

\* the dates formatted: two dates, the empty string and a text that is no date
FormattedDates == {Date_May1, Date_May2, <<>>, Date_Short}

\* the clock at a distance before or after the first date, at the start of a
\* second, just after it or just before the next
RelativeClocks ==
    {[s |-> DateGetTime(Date_May1).n + sign * d, ms |-> ms] :
        sign \in {-1, 1}, d \in Distances, ms \in {0, 1, 999}}

\* the calls of the date formatters
RelativeCalls ==
    {[fn |-> fn, value |-> JsStr(date)] :
        fn \in {"formatVisitDate", "formatRelative", "localization.formatRelative"},
        date \in FormattedDates}
    \cup {[fn |-> fn, value |-> v] :
            fn \in {"formatRelative", "localization.formatRelative"},
            v \in {JsNull, JsUndefined}}

InitRelative ==
    /\ demoResidents = <<>>
    /\ request = NoRequest
    /\ response = NoResponse
    /\ now \in RelativeClocks
    /\ sessionStore = <<>>
    /\ sessionsIssued = 0
    /\ call \in RelativeCalls
    /\ returned = NoCall
    /\ Constructed("", "asc")

\* formatVisitDate(dateValue) returns
CallFormatVisitDate ==
    /\ call.fn = "formatVisitDate"
    /\ returned = NoCall
    /\ returned' = [value |-> FormatVisitDate(call.value.v, now)]
    /\ UNCHANGED <<demoResidents, request, response, now, call, sessionStore, sessionsIssued>>
    /\ UNCHANGED clientVars

\* formatRelative(value) of the tools module returns
CallFormatRelative ==
    /\ call.fn = "formatRelative"
    /\ returned = NoCall
    /\ returned' = [value |-> FormatRelative(call.value, now)]
    /\ UNCHANGED <<demoResidents, request, response, now, call, sessionStore, sessionsIssued>>
    /\ UNCHANGED clientVars

\* formatRelative(value) of the localization module returns
CallLocalizationFormatRelative ==
    /\ call.fn = "localization.formatRelative"
    /\ returned = NoCall
    /\ returned' = [value |-> LocalizationFormatRelative(call.value, now)]
    /\ UNCHANGED <<demoResidents, request, response, now, call, sessionStore, sessionsIssued>>
    /\ UNCHANGED clientVars

NextRelative ==
    \/ CallFormatVisitDate
    \/ CallFormatRelative
    \/ CallLocalizationFormatRelative

SpecRelative == InitRelative /\ [][NextRelative]_vars

---------------------------------------------------------------------------
(* Properties of the relative-time formatting *)

\* a date that is a date has been formatted by formatVisitDate
VisitDateFormatted ==
    /\ call.fn = "formatVisitDate"
    /\ returned # NoCall
    /\ IsDateTime(call.value.v)

\* the instant formatted, in seconds since the epoch
Instant == DateGetTime(call.value.v).n

\* floor(|instant - now| / 1000): an instant ahead of a clock that is ms > 0
\* into its second is less than the whole seconds between them away
Distance ==
    IF Instant > now.s THEN (Instant - now.s) - (IF now.ms > 0 THEN 1 ELSE 0)
    ELSE now.s - Instant

\* count, unit and direction as the thresholds give them
CountAndUnit(d) ==
    IF d < 3600 THEN [count |-> d \div 60, unit |-> "min"]
    ELSE IF d < 86400 THEN [count |-> d \div 3600, unit |-> "hr"]
    ELSE IF d < 2592000
    THEN [count |-> d \div 86400, unit |-> IF d \div 86400 = 1 THEN "day" ELSE "days"]
    ELSE [count |-> d \div 2592000, unit |-> "mo"]

\* C21: an instant at whole-second distance d from the clock is formatted as
\* "just now" for d < 60, as floor(d/60) min below an hour, floor(d/3600) hr
\* below a day, floor(d/86400) day(s) below 30 days ("day" exactly for 1) and
\* floor(d/2592000) mo from there on; a count is at least 1 and is followed by
\* "ago" for an instant in the past and by "from now" for one in the future.
C21_RelativeThresholds ==
    VisitDateFormatted =>
        IF Distance < 60 THEN returned.value.relative = "just now"
        ELSE /\ CountAndUnit(Distance).count >= 1
             /\ returned.value.relative
                   = ToString(CountAndUnit(Distance).count) \o " "
                     \o CountAndUnit(Distance).unit \o " "
                     \o (IF Instant > now.s THEN "from now" ELSE "ago")

\* a date 90 seconds before the clock was formatted as "1 min ago"
C21_Witness ==
    /\ VisitDateFormatted
    /\ now.s - Instant = 90
    /\ returned.value.relative = "1 min ago"

---------------------------------------------------------------------------
(* index: cookies and URI components *)

\* a string literal as the sequence of its characters
Chars(str) == [i \in 1..Len(str) |-> SubSeq(str, i, i)]

\* the character of code 96, which no string literal here can hold
GraveAccent == "grave"

\* the printable ASCII characters, from code 32 to code 126
Ascii == Chars(" !\"#$%&'()*+,-./0123456789:;<=>?@ABCDEFGHIJKLMNOPQRSTUVWXYZ")
         \o <<"[", "\\", "]", "^", "_", GraveAccent>>
         \o Chars("abcdefghijklmnopqrstuvwxyz{|}~")

\* a character that is not printable ASCII (a control character)
ControlChar == "\\c"

\* the hex digits by value, as encodeURIComponent writes them
UpperHex == Chars("0123456789ABCDEF")

\* the value of a hex digit of either case
HexValue(c) == (CHOOSE i \in 1..16 : UpperHex[i] = c \/ ToLowerChar(UpperHex[i]) = c) - 1

\* String.prototype.split(sep) for a separator of one character
RECURSIVE Split(_, _)
Split(s, sep) ==
    IF \E i \in 1..Len(s) : s[i] = sep
    THEN LET i == CHOOSE k \in 1..Len(s) : s[k] = sep /\ \A j \in 1..(k - 1) : s[j] # sep
         IN  <<SubSeq(s, 1, i - 1)>> \o Split(SubSeq(s, i + 1, Len(s)), sep)
    ELSE <<s>>

\* Array.prototype.join(sep)
RECURSIVE Join(_, _)
Join(parts, sep) ==
    IF parts = <<>> THEN <<>>
    ELSE IF Len(parts) = 1 THEN parts[1]
    ELSE parts[1] \o <<sep>> \o Join(Tail(parts), sep)

\* what stands for the outcome of a decodeURIComponent call that throws
Thrown == <<"URIError">>

\* decodeURIComponent: %XX is replaced by the character of code XX; a "%" not
\* followed by two hex digits throws URIError, and so does an escape above %7F
\* that no continuation follows (multi-byte sequences are outside the
\* characters used here)
RECURSIVE DecodeURIComponent(_)
DecodeURIComponent(s) ==
    IF s = <<>> THEN <<>>
    ELSE IF Head(s) # "%"
    THEN LET rest == DecodeURIComponent(Tail(s))
         IN  IF rest = Thrown THEN Thrown ELSE <<Head(s)>> \o rest
    ELSE IF Len(s) < 3 \/ s[2] \notin HexDigits \/ s[3] \notin HexDigits THEN Thrown
    ELSE LET code == 16 * HexValue(s[2]) + HexValue(s[3])
             rest == DecodeURIComponent(SubSeq(s, 4, Len(s)))
         IN  IF code >= 128 \/ rest = Thrown THEN Thrown
             ELSE IF code >= 32 /\ code <= 126 THEN <<Ascii[code - 31]>> \o rest
             ELSE <<ControlChar>> \o rest

\* the characters encodeURIComponent leaves as they are
Unreserved ==
    {Ascii[i] : i \in 1..Len(Ascii)}
    \ {" ", "\"", "#", "$", "%", "&", "+", ",", "/", ":", ";", "<", "=", ">", "?", "@",
       "[", "\\", "]", "^", GraveAccent, "{", "|", "}"}

\* encodeURIComponent over the printable ASCII characters
RECURSIVE EncodeURIComponent(_)
EncodeURIComponent(s) ==
    IF s = <<>> THEN <<>>
    ELSE LET c == Head(s)
             code == IndexIn(Ascii, c) + 31
         IN  (IF c \in Unreserved THEN <<c>>
              ELSE <<"%", UpperHex[(code \div 16) + 1], UpperHex[(code % 16) + 1]>>)
             \o EncodeURIComponent(Tail(s))

\* the session middleware's cookie parsing: the chunks between the semicolons
\* are split at "=", a chunk without a name is skipped, a later chunk of the
\* same name replaces an earlier one; thrown when decodeURIComponent throws
RECURSIVE ParseChunks(_, _)
ParseChunks(chunks, cookies) ==
    IF chunks = <<>> THEN [thrown |-> FALSE, cookies |-> cookies]
    ELSE LET parts   == Split(Head(chunks), "=")
             rawName == parts[1]
             name    == Trim(rawName)
             value   == Trim(Join(Tail(parts), "="))
             decoded == DecodeURIComponent(value)
         IN  IF rawName = <<>> \/ name = <<>> THEN ParseChunks(Tail(chunks), cookies)
             ELSE IF decoded = Thrown THEN [thrown |-> TRUE, cookies |-> cookies]
             ELSE ParseChunks(Tail(chunks),
                              [n \in DOMAIN cookies \cup {name} |->
                                  IF n = name THEN decoded ELSE cookies[n]])

\* req.headers.cookie || "" parsed: the cookies by name
ParseCookies(header) ==
    LET cookieHeader == IF header.t = "string" THEN header.v ELSE <<>>
    IN  IF cookieHeader = <<>> THEN [thrown |-> FALSE, cookies |-> <<>>]
        ELSE ParseChunks(Split(cookieHeader, ";"), <<>>)

---------------------------------------------------------------------------
(* index: the front-end server, its middleware and its routes *)

\* successful logins in one run
MaxSessions == 2

DEMO_PASSWORD == Chars("ortak12lar")

\* the name of the session cookie
SessionCookie == Chars("seniwise_session")

\* crypto.randomBytes(24).toString("hex") of the k-th successful login: hex
\* strings that never repeat (the 192-bit values are drawn at random)
RandomSessionId(k) == <<"a", ToLowerChar(UpperHex[k + 1])>>

\* what a response of the front-end server carries: status, how the body is
\* made (a redirect, a rendered view, JSON, the framework's error or not-found
\* answer), the location or view, the Set-Cookie header (empty: none) and the
\* JSON body
FrontResponse(status, kind, target, setCookie, body) ==
    [status |-> status, kind |-> kind, target |-> target, setCookie |-> setCookie,
     body |-> body]

Redirect(location) == FrontResponse(302, "redirect", location, <<>>, JsNull)
RenderView(status, view) == FrontResponse(status, "render", view, <<>>, JsNull)
Json(sent) == FrontResponse(sent.status, "json", "", <<>>, sent.body)

\* the answer of the framework to an exception thrown in a middleware, and to
\* a request that no route matches
ServerError == FrontResponse(500, "error", "", <<>>, JsNull)
NotFound == FrontResponse(404, "notfound", "", <<>>, JsNull)

\* the session middleware: res.locals.session is set (and session_id is the
\* cookie's value) when the session cookie names a session in the store
Locals(req, store) ==
    LET parsed    == ParseCookies(req.cookie)
        sessionId == IF SessionCookie \in DOMAIN parsed.cookies
                     THEN parsed.cookies[SessionCookie] ELSE <<>>
    IN  IF parsed.thrown THEN [thrown |-> TRUE, session |-> FALSE, session_id |-> <<>>]
        ELSE IF sessionId # <<>> /\ sessionId \in DOMAIN store
        THEN [thrown |-> FALSE, session |-> TRUE, session_id |-> sessionId]
        ELSE [thrown |-> FALSE, session |-> FALSE, session_id |-> <<>>]

\* req.path.startsWith("/api")
StartsWithApi(path) == Len(path) >= 4 /\ SubSeq(path, 1, 4) = "/api"

\* the authentication middleware lets the request through
Authenticated(req, store) ==
    \/ StartsWithApi(req.path)
    \/ req.path = "/login"
    \/ req.path = "/logout"
    \/ Locals(req, store).session

\* the middleware in front of every route: the response is that of the route
\* unless the session middleware throws or the authentication middleware
\* redirects
Through(req, store, routed) ==
    IF Locals(req, store).thrown THEN ServerError
    ELSE IF ~Authenticated(req, store) THEN Redirect("/login")
    ELSE routed

\* the path of the detail route for the uuid numbered i
DetailPath(i) == "/api/residents/" \o ToString(i)

\* the method and path pairs that have a route
Routed ==
    {<<"GET", "/login">>, <<"POST", "/login">>, <<"GET", "/logout">>, <<"GET", "/">>,
     <<"GET", "/residents">>, <<"GET", "/api/residents">>}
    \cup {<<"GET", DetailPath(i)>> : i \in 1..3}

\* the Cookie headers presented: none, the session cookie with an id that a
\* login may issue or never issues, the session cookie padded, escaped, next
\* to another cookie, replaced by a later chunk, and values that do not decode
PresentedIds == {RandomSessionId(k) : k \in 1..MaxSessions} \cup {Chars("ff")}
CookieHeaders ==
    {JsUndefined}
    \cup {JsStr(SessionCookie \o <<"=">> \o id) : id \in PresentedIds}
    \cup {JsStr(Chars(header)) :
            header \in {" seniwise_session = a1 ", "seniwise_session=%611",
                        "theme=dark; seniwise_session=a1",
                        "seniwise_session=a1; seniwise_session=",
                        "seniwise_session=a1; theme=%", "seniwise_session=%"}}

\* req.body of a login submission: the fields that are present
LoginBodies ==
    {[k \in {"username" : x \in u} |-> CHOOSE x \in u : TRUE]
     @@ [k \in {"password" : x \in p} |-> CHOOSE x \in p : TRUE] :
        u \in Optional({JsStr(Chars(" reha ")), JsStr(Chars("atesh")),
                        JsStr(Chars("nobody"))}),
        p \in Optional({JsStr(DEMO_PASSWORD), JsStr(Chars("ortak12lar "))})}

\* the requests: pages, the login and logout routes, the API behind its mount,
\* and paths without a route
FrontRequests ==
    {[method |-> m, path |-> p, cookie |-> c, body |-> <<>>, query |-> <<>>] :
        m \in {"GET"},
        p \in {"/", "/login", "/logout", "/residents", "/apiary", "/visits"}
              \cup {DetailPath(i) : i \in {1, 3}},
        c \in CookieHeaders}
    \cup {[method |-> "POST", path |-> p, cookie |-> c, body |-> <<>>, query |-> <<>>] :
            p \in {"/logout", "/residents"}, c \in CookieHeaders}
    \cup {[method |-> "GET", path |-> "/api/residents", cookie |-> c, body |-> <<>>,
           query |-> q] : c \in CookieHeaders, q \in ListRequests}
    \cup {[method |-> "POST", path |-> "/login", cookie |-> c, body |-> b,
           query |-> <<>>] :
            c \in {JsUndefined, JsStr(Chars("seniwise_session=%"))}, b \in LoginBodies}

\* the collections behind the API of the front-end server
FrontCollections ==
    {<<>>, <<WithUuid(RawResident({FirstProfile}, {}, {}, {}, {}), 1)>>}

\* the server has started: no session, no request yet
InitFront ==
    /\ demoResidents \in FrontCollections
    /\ request = NoRequest
    /\ response = NoResponse
    /\ now = [s |-> 1714730400, ms |-> 0]
    /\ sessionStore = <<>>
    /\ sessionsIssued = 0
    /\ call = NoCall
    /\ returned = NoCall
    /\ Constructed("", "asc")

\* a request of the given method and path arrives and is answered; the session
\* store and the count of ids drawn change as given
Answer(req, answer, store, issued) ==
    /\ request' = req
    /\ response' = answer
    /\ sessionStore' = store
    /\ sessionsIssued' = issued
    /\ UNCHANGED <<demoResidents, now, call, returned>>
    /\ UNCHANGED clientVars

\* app.get("/login")
GetLogin ==
    \E req \in FrontRequests :
        /\ req.method = "GET" /\ req.path = "/login"
        /\ Answer(req,
                  Through(req, sessionStore,
                          IF Locals(req, sessionStore).session THEN Redirect("/")
                          ELSE RenderView(200, "login")),
                  sessionStore, sessionsIssued)

\* the submitted user name is that of a user and the password is the password
Accepted(body) ==
    LET username == IF Get(body, "username").t = "string"
                    THEN Trim(body.username.v) ELSE <<>>
        password == IF Get(body, "password").t = "string"
                    THEN body.password.v ELSE <<>>
    IN  UsersHas(username) /\ password = DEMO_PASSWORD

\* app.post("/login"): with a known user name and the password, a session is
\* stored under a new id and the cookie carrying the id is set
PostLogin ==
    \E req \in FrontRequests :
        /\ req.method = "POST" /\ req.path = "/login"
        /\ LET username  == IF Get(req.body, "username").t = "string"
                            THEN Trim(req.body.username.v) ELSE <<>>
               accepted  == Accepted(req.body)
               reached   == ~Locals(req, sessionStore).thrown
               sessionId == RandomSessionId(sessionsIssued + 1)
               session   == [username |-> username, name |-> UsersGetName(username)]
           IN  /\ reached /\ accepted => sessionsIssued < MaxSessions
               /\ Answer(req,
                         Through(req, sessionStore,
                                 IF accepted
                                 THEN FrontResponse(302, "redirect", "/",
                                          SessionCookie \o <<"=">>
                                          \o EncodeURIComponent(sessionId)
                                          \o Chars("; Path=/; HttpOnly; SameSite=Lax"),
                                          JsNull)
                                 ELSE RenderView(401, "login")),
                         IF reached /\ accepted
                         THEN [id \in DOMAIN sessionStore \cup {sessionId} |->
                                  IF id = sessionId THEN session ELSE sessionStore[id]]
                         ELSE sessionStore,
                         IF reached /\ accepted THEN sessionsIssued + 1
                         ELSE sessionsIssued)

\* app.get("/logout"): the session of the cookie is deleted, the cookie cleared
GetLogout ==
    \E req \in FrontRequests :
        /\ req.method = "GET" /\ req.path = "/logout"
        /\ LET locals == Locals(req, sessionStore)
           IN  Answer(req,
                      Through(req, sessionStore,
                              FrontResponse(302, "redirect", "/login",
                                  Chars("seniwise_session=; Path=/; HttpOnly; ")
                                  \o Chars("SameSite=Lax; Max-Age=0"),
                                  JsNull)),
                      IF locals.session
                      THEN [id \in DOMAIN sessionStore \ {locals.session_id} |->
                               sessionStore[id]]
                      ELSE sessionStore,
                      sessionsIssued)

\* app.get("/")
GetHome ==
    \E req \in FrontRequests :
        /\ req.method = "GET" /\ req.path = "/"
        /\ Answer(req, Through(req, sessionStore, Redirect("/residents")),
                  sessionStore, sessionsIssued)

\* app.get("/residents")
GetResidents ==
    \E req \in FrontRequests :
        /\ req.method = "GET" /\ req.path = "/residents"
        /\ Answer(req, Through(req, sessionStore, RenderView(200, "list-residents")),
                  sessionStore, sessionsIssued)

\* app.use("/api", ...) and router.get("/residents")
ApiList ==
    \E req \in FrontRequests :
        /\ req.method = "GET" /\ req.path = "/api/residents"
        /\ Answer(req,
                  Through(req, sessionStore, Json(ListResidents(demoResidents, req.query))),
                  sessionStore, sessionsIssued)

\* app.use("/api", ...) and router.get("/residents/:uuid")
ApiDetail ==
    \E req \in FrontRequests, i \in 1..3 :
        /\ req.method = "GET" /\ req.path = DetailPath(i)
        /\ Answer(req,
                  Through(req, sessionStore,
                          Json(ResidentDetail(demoResidents, [uuid |-> JsStr(i)], now))),
                  sessionStore, sessionsIssued)

\* a request that no route matches
NoRoute ==
    \E req \in FrontRequests :
        /\ <<req.method, req.path>> \notin Routed
        /\ Answer(req, Through(req, sessionStore, NotFound), sessionStore, sessionsIssued)

NextFront ==
    \/ GetLogin
    \/ PostLogin
    \/ GetLogout
    \/ GetHome
    \/ GetResidents
    \/ ApiList
    \/ ApiDetail
    \/ NoRoute

SpecFront == InitFront /\ [][NextFront]_vars

---------------------------------------------------------------------------
(* Properties of the front-end server *)

\* the request just answered was one of the list or the detail route of the
\* API and its handler has sent the response
CoreReached ==
    /\ "path" \in DOMAIN request
    /\ request.method = "GET"
    /\ request.path \in {"/api/residents"} \cup {DetailPath(i) : i \in 1..3}
    /\ response.kind = "json"

\* C22: the list and the detail handler of the API answer only a request that
\* carries a valid session, that is a session cookie naming a session in the
\* store
C22_CoreOnlyWithSession ==
    CoreReached => Locals(request, sessionStore).session

---------------------------------------------------------------------------
(* Properties of TableView under racing responses *)

\* the step settles the pending fetch at position k (its response arrives or
\* it fails)
Settles(k) ==
    /\ k \in 1..Len(fetches)
    /\ fetches' = Remove(fetches, k)
    /\ event'.type \in {"response", "failure"}

\* the most recently issued load has settled already
NewestSettled == \A j \in 1..Len(fetches) : fetches[j].id # loadCount

\* C23: the result of an older load never replaces the result of a newer one:
\* a fetch that settles after the most recently issued load has settled
\* leaves the displayed items, the pagination and the sort state as they are
C23_OlderNeverReplacesNewer ==
    [][\A k \in 1..Len(fetches) :
          Settles(k) /\ NewestSettled
          => /\ items' = items
             /\ pagination' = pagination
             /\ state'.sortBy = state.sortBy
             /\ state'.sortOrder = state.sortOrder]_vars

\* C27: the loading flag is true whenever a load is in flight: when loading is
\* false no issued fetch is pending
C27_LoadingWhilePending == ~loading => fetches = <<>>

\* the fetch that load number id issued settles
SettleFetch(id) ==
    \E k \in 1..MaxLoads :
        /\ k \in 1..Len(fetches)
        /\ fetches[k].id = id
        /\ \/ \E error \in LoadErrors : FetchFailure(k, error)
           \/ \E n \in TotalItemsChoices : FetchSuccess(k, n)

\* a TableView constructed with the default options, the user typing one
\* character
InitLifecycle ==
    /\ demoResidents = <<>>
    /\ request = <<>>
    /\ response = NoResponse
    /\ now = [s |-> 0, ms |-> 0]
    /\ sessionStore = <<>>
    /\ sessionsIssued = 0
    /\ call = NoCall
    /\ returned = NoCall
    /\ Constructed("", "asc")

NextLifecycle ==
    \/ SearchInput("a") /\ UNCHANGED serverVars
    \/ Tick
    \/ SearchTimer
    \/ \E i \in ClickedColumns : SortClick(i) /\ UNCHANGED serverVars
    \/ PrevClick
    \/ NextClick
    \/ \E id \in 1..MaxLoads : SettleFetch(id)

\* TableView when every fetch eventually resolves or rejects
SpecLifecycle ==
    /\ InitLifecycle
    /\ [][NextLifecycle]_vars
    /\ \A id \in 1..MaxLoads : WF_vars(SettleFetch(id))

\* the step starts a load: the loading flag is set and a fetch is issued
LoadStarts ==
    /\ loading'
    /\ loadCount' = loadCount + 1
    /\ Len(fetches') = Len(fetches) + 1
    /\ fetches'[Len(fetches')].id = loadCount'

\* the step of a load that ends: rendered with the items and the pagination of
\* the response, or errored without items
LoadEnds(k) ==
    /\ ~loading'
    /\ event'.type = "response" =>
          \E n \in TotalItemsChoices :
              /\ items' = ListPayload(fetches[k].query, n).items
              /\ pagination' = ListPayload(fetches[k].query, n).pagination
    /\ event'.type = "failure" => items' = <<>> /\ pagination' = ZeroPagination

---------------------------------------------------------------------------
(* demo_api: a sequence of requests *)

\* the collections served to a sequence of requests: records under distinct
\* uuids, stored in an order no sort key gives
RequestCollections ==
    {[i \in 1..n |-> Resident(Len(ProfilePool) + 1 - i, i)] : n \in 1..MaxResidents}

\* the requests of a sequence: list requests with or without page, search
\* text, sort key and direction, and detail requests
SequenceRequests ==
    {MakeQuery(p, q, sort_by, sort_order) :
        p \in Optional({<<"0">>}), q \in Optional({<<"b">>}),
        sort_by \in Optional({"name", "room"}), sort_order \in Optional({"desc"})}
    \cup DetailRequests

\* the server has started and no request has arrived
InitRequests ==
    /\ demoResidents \in RequestCollections
    /\ request = NoRequest
    /\ response = NoResponse
    /\ now \in Clocks
    /\ sessionStore = <<>>
    /\ sessionsIssued = 0
    /\ call = NoCall
    /\ returned = NoCall
    /\ Constructed("", "asc")

\* the next request arrives, at some later or equal time, once the one before
\* it is answered
Arrive ==
    /\ "none" \in DOMAIN request \/ response # NoResponse
    /\ request' \in SequenceRequests
    /\ response' = NoResponse
    /\ now' \in {c \in Clocks : c.s >= now.s}
    /\ UNCHANGED <<demoResidents, call, returned, sessionStore, sessionsIssued>>
    /\ UNCHANGED clientVars

NextRequests ==
    \/ Arrive
    \/ HandleList
    \/ HandleDetail

SpecRequests == InitRequests /\ [][NextRequests]_vars

---------------------------------------------------------------------------
(* Properties of request sequences *)

\* C25: no request changes the shared record collection (the same records in
\* the same order after every step), and the response to a request is the
\* one its parameters, the collection as it was at the start and the current
\* time determine, whatever was requested before
C25_NoSharedStateMutated ==
    [][/\ demoResidents' = demoResidents
       /\ response' # NoResponse =>
             response' = IF "uuid" \in DOMAIN request'
                         THEN ResidentDetail(demoResidents, request', now')
                         ELSE ListResidents(demoResidents, request')]_vars

\* a sorted, filtered list request has been answered after an earlier request
\* and the collection of two or more records is still in its stored order
C25_Witness ==
    /\ response # NoResponse
    /\ "sort_order" \in DOMAIN request
    /\ "q" \in DOMAIN request
    /\ Len(demoResidents) >= 2
    /\ response.body.result.sort.order = "desc"
    /\ ResidentWithMeta(demoResidents[1]).uuid = 1
    /\ now.s > 1714548599

---------------------------------------------------------------------------
(* Properties of the pages of the list endpoint *)

\* the request with its page parameter set to k
WithPage(query, k) ==
    [key \in DOMAIN query \cup {"p"} |-> IF key = "p" THEN NumberToString(k) ELSE query[key]]

\* the items the endpoint serves as page k of the request answered
PageItems(k) == ListResidents(demoResidents, WithPage(request, k)).body.result.items

\* the items of the pages 0..k-1, in order
RECURSIVE FirstPages(_)
FirstPages(k) == IF k = 0 THEN <<>> ELSE FirstPages(k - 1) \o PageItems(k - 1)

\* a request without page parameter has been answered
FirstPageServed ==
    /\ response # NoResponse
    /\ "uuid" \notin DOMAIN request
    /\ "p" \notin DOMAIN request

\* C26: for the records, the search text, the sort key and the direction of a
\* request, the pages 0..total-1 of the list endpoint, one after the other,
\* are the whole filtered sorted list, every matching record on one page only;
\* every page but the last holds 20 items, the last the 1..20 that remain
C26_PagesPartition ==
    FirstPageServed =>
        LET served     == response.body.result.pagination
            total      == served.total
            whole      == FilteredSorted(demoResidents, request)
            all        == FirstPages(total)
        IN  /\ served.totalItems = Len(whole)
            /\ all = [i \in 1..Len(whole) |-> ItemOf(whole[i])]
            /\ \A i, j \in 1..Len(all) : all[i].uuid = all[j].uuid => i = j
            /\ \A k \in 0..(total - 2) : Len(PageItems(k)) = RESIDENTS_PAGE_SIZE
            /\ total > 0 =>
                  /\ Len(PageItems(total - 1))
                        = served.totalItems - RESIDENTS_PAGE_SIZE * (total - 1)
                  /\ Len(PageItems(total - 1)) \in 1..RESIDENTS_PAGE_SIZE

\* a sorted request whose list takes three pages, the last one not full
C26_Witness ==
    /\ FirstPageServed
    /\ "sort_by" \in DOMAIN request
    /\ response.body.result.pagination.total = 3
    /\ Len(PageItems(2)) = 5
    /\ Len(FirstPages(3)) = 45

---------------------------------------------------------------------------
(* Properties of explicit visit-action values *)

\* C28: a raw action that carries an explicit value (a string, true or false)
\* is projected with that value, whatever the kind of the action
C28_ExplicitValueKept ==
    \A p \in VisitPairs :
        \A a \in 1..Len(RawActions(p.raw)) :
            LET action == RawActions(p.raw)[a]
                item   == p.out.actions.items[a]
            IN  "value" \in DOMAIN action /\ action.value.t \in {"string", "boolean"} =>
                    /\ item.value.t = action.value.t
                    /\ item.value.v = action.value.v

---------------------------------------------------------------------------
(* The last visit in the list row and in the detail payload *)

\* visits on the dates formatted, and one without a date
DatedVisits ==
    {[date |-> JsStr(d), caretaker |-> JsStr(Str_reha)] : d \in FormattedDates \ {<<>>}}
    \cup {[caretaker |-> JsStr(Str_atesh)]}

\* a collection of one record, with up to MaxVisits of these visits
LastVisitCollections ==
    {<<WithUuid(RawResident({FirstProfile}, {}, {}, {}, {v}), 1)>> :
        v \in SeqsUpTo(DatedVisits, MaxVisits)}

\* at some time a date formatter is called, or the list or the detail of the
\* record is requested
InitLastVisit ==
    /\ response = NoResponse
    /\ returned = NoCall
    /\ now \in RelativeClocks
    /\ sessionStore = <<>>
    /\ sessionsIssued = 0
    /\ \/ /\ demoResidents \in LastVisitCollections
          /\ request \in {MakeQuery({}, {}, {}, {}), [uuid |-> JsStr(1)]}
          /\ call = NoCall
       \/ /\ demoResidents = <<>>
          /\ request = NoRequest
          /\ call \in RelativeCalls
    /\ Constructed("", "asc")

NextLastVisit ==
    \/ HandleList
    \/ HandleDetail
    \/ CallFormatVisitDate
    \/ CallFormatRelative
    \/ CallLocalizationFormatRelative

SpecLastVisit == InitLastVisit /\ [][NextLastVisit]_vars

---------------------------------------------------------------------------
(* Properties of the duplicated relative-time implementations *)

\* the relative string a formatter has returned for a string
RelativeReturned ==
    IF call.fn = "formatVisitDate" THEN returned.value.relative ELSE returned.value

\* C29: whatever formatVisitDate and the two formatRelative return for a date
\* at some time is the relative string the list handler computes inline for
\* that date at that time; the last_visit_display of a list row is the
\* last_visit.display of the detail payload of the same record at the same
\* time
C29_RelativeImplementationsAgree ==
    /\ returned # NoCall /\ call.value.t = "string" =>
          RelativeReturned = LastVisitRelative(call.value.v, now)
    /\ response # NoResponse /\ "uuid" \notin DOMAIN request =>
          \A i \in 1..Len(response.body.result.items) :
              response.body.result.items[i].last_visit_display
                 = ResidentDetail(demoResidents, [uuid |-> JsStr(1)], now)
                      .body.result.last_visit.display
    /\ response # NoResponse /\ "uuid" \in DOMAIN request =>
          response.body.result.last_visit.display
             = ListResidents(demoResidents, MakeQuery({}, {}, {}, {}))
                  .body.result.items[1].last_visit_display

\* the row of a record whose last visit was 90 seconds before the clock, a
\* visit without date coming after it
C29_Witness ==
    /\ response # NoResponse
    /\ "uuid" \notin DOMAIN request
    /\ Len(VisitsOf(demoResidents[1])) = 2
    /\ "date" \notin DOMAIN VisitsOf(demoResidents[1])[2]
    /\ response.body.result.items[1].last_visit_display = "2024-05-01 10:00 (1 min ago)"

---------------------------------------------------------------------------
(* Properties of the session lifecycle of the front-end server *)

\* the request is for a page: neither the login or logout route nor a path
\* under the API
PageRequest(req) ==
    ~StartsWithApi(req.path) /\ req.path \notin {"/login", "/logout"}

\* the session id that the Set-Cookie header of a response carries, empty
\* when the response sets no cookie
IssuedId(answer) ==
    LET header == answer.setCookie
    IN  IF header = <<>> THEN <<>>
        ELSE DecodeURIComponent(Split(Split(header, ";")[1], "=")[2])

\* one request answered, seen against the store it arrived at: sessions are
\* added by a successful login only, under the id it issues, and removed only
\* by a logout presenting the id; a page request presenting a stored session
\* is not sent to the login page, any other page request is. With
\* decodedOnly the step is looked at only when the Cookie header of the
\* request decodes.
LifecycleStep(decodedOnly) ==
    LET req     == request'
        before  == DOMAIN sessionStore
        after   == DOMAIN sessionStore'
        locals  == Locals(req, sessionStore)
        login   == req.method = "POST" /\ req.path = "/login"
        logout  == req.method = "GET" /\ req.path = "/logout"
        success == login /\ Accepted(req.body)
    IN  (decodedOnly => ~locals.thrown) =>
            /\ success => /\ after \ before = {IssuedId(response')}
                          /\ IssuedId(response') \notin before
            /\ ~success => after \subseteq before
            /\ logout /\ locals.session => before \ after = {locals.session_id}
            /\ ~(logout /\ locals.session) => before \subseteq after
            /\ PageRequest(req) /\ locals.session => response'.kind # "redirect"
                                                     \/ response'.target # "/login"
            /\ PageRequest(req) /\ ~locals.session => response' = Redirect("/login")

\* C30: a session id is in the store from the successful login that issued it
\* until a logout presenting it, a failed login adds none, and a page request
\* is answered otherwise than by the redirect to /login only when it presents
\* a session id that is in the store
C30_SessionLifecycle == [][LifecycleStep(FALSE)]_vars

\* the same for the requests whose Cookie header decodes
SessionLifecycleOfDecodedCookies == [][LifecycleStep(TRUE)]_vars

=============================================================================
